---------------------------- MODULE Spec2Model ----------------------------
(***************************************************************************)
(* use-lite-form: the path-addressed reactive store (Instance), its list   *)
(* controller (Form.List), the field binding (Form.Item) and the undo/redo *)
(* bridge (useFormHistory), as state machines.                             *)
(*                                                                         *)
(* JavaScript values are tagged records: null, undefined, strings, plain   *)
(* objects (a function from keys to values) and arrays (a sequence).       *)
(* Path segments are strings; an array index is the decimal string lodash  *)
(* accepts as an index ("0", "1", ...).  lodash cloneDeep is the identity  *)
(* on these immutable values; an array hole reads as undefined.            *)
(***************************************************************************)
EXTENDS Integers, Sequences, FiniteSets, TLC

VARIABLES
    instance,     \* the Instance object: its fields, caches and debounce timer
    now,          \* lodash now(): the clock, in milliseconds
    keyManager,   \* Form.List: keyManager.current = {keys, id}
    rendered,     \* Form.List / List.Items: what the last render closed over
    fields,       \* Form.Item: one record of refs per field binding
    history,      \* useHistoryState: the undo/redo buffer
    calls,        \* per listener: how often it was invoked, and the last payload
    burst,        \* mutating calls since the debounce timer last expired
    last          \* the last operation, its arguments and its result

vars == <<instance, now, keyManager, rendered, fields, history, calls, burst, last>>

---------------------------------------------------------------------------
(* Bounds of the model *)

MaxLen == 3          \* longest list the list controller grows
MaxKeyId == 4        \* keys minted per run
MaxChanges == 2      \* notifications delivered per run
MaxBurst == 3        \* mutations counted within one debounce window
maxCapacity == 2     \* snapshots the history buffer keeps behind the present one
MaxNow == 2          \* the clock reading the run ends at

---------------------------------------------------------------------------
(* JavaScript values *)

Null == [t |-> "null"]
Undefined == [t |-> "undefined"]
Str(s) == [t |-> "string", s |-> s]
Obj(kv) == [t |-> "object", kv |-> kv]
Arr(el) == [t |-> "array", el |-> el]

NoProps == [k \in {} |-> Null]
EmptyObj == Obj(NoProps)
EmptyArr == Arr(<<>>)

isNil(v) == v.t \in {"null", "undefined"}
isArray(v) == v.t = "array"
isPlainObject(v) == v.t = "object"
isObject(v) == v.t \in {"object", "array"}
isString(v) == v.t = "string"
isUndefined(v) == v.t = "undefined"

\* lodash size / isEmpty on the values the store holds
size(v) ==
    CASE v.t = "array" -> Len(v.el)
      [] v.t = "object" -> Cardinality(DOMAIN v.kv)
      [] v.t = "string" -> Len(v.s)
      [] OTHER -> 0

isEmpty(v) == size(v) = 0

\* JavaScript truthiness: null, undefined and "" are falsy
Truthy(v) == ~isNil(v) /\ ~(isString(v) /\ v.s = "")

\* lodash values(): the property values of an object or the elements of an array
valuesOf(v) ==
    CASE v.t = "array" -> {v.el[i] : i \in 1..Len(v.el)}
      [] v.t = "object" -> {v.kv[k] : k \in DOMAIN v.kv}
      [] OTHER -> {}

everyNil(v) == \A x \in valuesOf(v) : isNil(x)

---------------------------------------------------------------------------
(* Paths and their joined keys *)

Digits == <<"0", "1", "2", "3", "4", "5", "6", "7", "8", "9">>

\* the path segment of an array index, and back
Seg(i) == Digits[i + 1]
isIndex(k) == \E i \in 1..Len(Digits) : Digits[i] = k
Idx(k) == (CHOOSE i \in 1..Len(Digits) : Digits[i] = k) - 1

\* the characters of a segment: segments are one character long, but "ab"
Chars(k) == IF k = "ab" THEN <<"a", "b">> ELSE <<k>>

\* Array.prototype.join('.') as a sequence of characters
RECURSIVE Join(_)
Join(path) ==
    IF path = <<>> THEN <<>>
    ELSE IF Len(path) = 1 THEN Chars(path[1])
    ELSE Chars(path[1]) \o <<".">> \o Join(Tail(path))

\* String.prototype.startsWith
startsWith(s, prefix) ==
    Len(prefix) <= Len(s) /\ SubSeq(s, 1, Len(prefix)) = prefix

---------------------------------------------------------------------------
(* lodash get and set *)

\* object[key] for one key
Prop(v, k) ==
    CASE v.t = "object" -> IF k \in DOMAIN v.kv THEN v.kv[k] ELSE Undefined
      [] v.t = "array" ->
            IF isIndex(k) /\ Idx(k) < Len(v.el) THEN v.el[Idx(k) + 1] ELSE Undefined
      [] OTHER -> Undefined

\* baseGet: walk the path while the object is not null or undefined
RECURSIVE baseGet(_, _)
baseGet(v, path) ==
    IF path = <<>> THEN v
    ELSE IF isNil(v) THEN Undefined
    ELSE baseGet(Prop(v, Head(path)), Tail(path))

\* get(object, path, defaultValue): the default replaces undefined only
lodashGet(v, path, defaultValue) ==
    LET result == IF path = <<>> THEN Undefined ELSE baseGet(v, path)
    IN  IF isUndefined(result) THEN defaultValue ELSE result

\* assignValue: object[key] = value; an index past the end leaves holes
Assign(v, k, x) ==
    CASE v.t = "object" ->
            Obj([kk \in (DOMAIN v.kv) \cup {k} |-> IF kk = k THEN x ELSE v.kv[kk]])
      [] v.t = "array" /\ isIndex(k) ->
            LET n == IF Idx(k) + 1 > Len(v.el) THEN Idx(k) + 1 ELSE Len(v.el)
            IN  Arr([i \in 1..n |->
                        IF i = Idx(k) + 1 THEN x
                        ELSE IF i <= Len(v.el) THEN v.el[i] ELSE Undefined])
      [] OTHER -> v

\* baseSet: a missing or primitive step becomes [] before an index, {} otherwise
RECURSIVE baseSet(_, _, _)
baseSet(v, path, x) ==
    IF Len(path) = 1 THEN Assign(v, path[1], x)
    ELSE LET objValue == Prop(v, path[1])
             nested == IF isObject(objValue) THEN objValue
                       ELSE IF isIndex(path[2]) THEN EmptyArr ELSE EmptyObj
         IN  Assign(v, path[1], baseSet(nested, Tail(path), x))

lodashSet(v, path, x) ==
    IF ~isObject(v) \/ path = <<>> THEN v ELSE baseSet(v, path, x)

---------------------------------------------------------------------------
(* deepClean *)

Deleted == [t |-> "deleted"]

RECURSIVE deepClean(_, _)

\* one iteration of the loop over keys(obj): what obj[key] becomes
cleanProperty(value) ==
    IF isNil(value) THEN Deleted
    ELSE IF isPlainObject(value) /\ isEmpty(value) THEN Deleted
    ELSE IF isArray(value) /\ isEmpty(value) THEN Null
    ELSE IF isArray(value) /\ everyNil(value) THEN Null
    ELSE IF isObject(value) THEN
        LET cleaned == deepClean(value, FALSE)
        IN  IF isNil(cleaned) THEN Deleted
            ELSE IF isArray(cleaned) /\ everyNil(cleaned) THEN Null
            ELSE IF isPlainObject(cleaned) THEN
                IF isEmpty(cleaned) THEN Deleted
                ELSE IF everyNil(cleaned) /\ size(cleaned) > 0 THEN Deleted
                ELSE cleaned
            ELSE cleaned
    ELSE value

deepClean(obj, isRoot) ==
    IF isRoot /\ isObject(obj) /\ size(obj) = 0 THEN obj
    ELSE IF isNil(obj) THEN obj
    ELSE IF isArray(obj) THEN
        LET processed == Arr([i \in 1..Len(obj.el) |->
                IF isNil(obj.el[i]) THEN obj.el[i]
                ELSE IF isObject(obj.el[i]) THEN deepClean(obj.el[i], FALSE)
                ELSE obj.el[i]])
        IN  IF ~isRoot /\ (everyNil(processed) \/ size(processed) = 0) THEN Null
            ELSE processed
    ELSE IF isPlainObject(obj) THEN
        LET kept == {k \in DOMAIN obj.kv : cleanProperty(obj.kv[k]) # Deleted}
            result == Obj([k \in kept |-> cleanProperty(obj.kv[k])])
        IN  IF ~isRoot /\ everyNil(result) /\ size(result) > 0 THEN Null
            ELSE IF ~isRoot /\ isEmpty(result) THEN Null
            ELSE result
    ELSE obj

---------------------------------------------------------------------------
(* RequiredErrors: a Set<string> of joined paths *)

\* a record field replaced; the other fields kept
Put(m, k, x) == [kk \in (DOMAIN m) \cup {k} |-> IF kk = k THEN x ELSE m[kk]]

requiredErrorsAdd(S, path) == S \cup {Join(path)}

\* remove: forEach entry that startsWith(key) is deleted, then the key itself
requiredErrorsRemove(S, path) ==
    {k \in S : ~startsWith(k, Join(path))} \ {Join(path)}

requiredErrorsHas(S, path) == Join(path) \in S

\* Set.prototype.delete called with the path array itself (not joined): a Set
\* compares by identity, so only an entry that is this very array would go
requiredErrorsDelete(S, path) == S \ {path}

---------------------------------------------------------------------------
(* Instance *)

NoCache == [k \in {} |-> Null]
NoArgs == [action |-> "NONE", silent |-> FALSE]

Actions == {"CLEAR", "CLEAR_ERRORS", "INIT", "REPLACE", "HISTORY_REDO",
            "HISTORY_REPLACE", "HISTORY_UNDO", "SET"}

\* constructor(value)
NewInstance(value) ==
    [ cache |-> [error |-> NoCache, get |-> NoCache],
      errors |-> EmptyObj,
      changed |-> FALSE,
      items |-> <<>>,
      changesCount |-> 0,
      lastChange |-> 0,
      lastSubmit |-> 0,
      onChangeListeners |-> {},
      requiredErrors |-> {},
      value |-> IF Truthy(value) THEN value ELSE EmptyObj,
      \* the lodash debounce wrapper of triggerOnChangeDebounced:
      \* whether its timer is armed, and the arguments of the latest call
      timer |-> [pending |-> FALSE, args |-> NoArgs] ]

cacheFlush(I) == [I EXCEPT !.cache = [error |-> NoCache, get |-> NoCache]]

cacheGet(I, type, path) ==
    IF Join(path) \in DOMAIN I.cache[type] THEN I.cache[type][Join(path)]
    ELSE Undefined

cacheSet(I, type, path, x) ==
    [I EXCEPT !.cache[type] = Put(@, Join(path), x)]

\* debounce(fn, 10), trailing edge: every call re-arms the timer and keeps
\* only the latest arguments
debounceCall(I, args) == [I EXCEPT !.timer = [pending |-> TRUE, args |-> args]]

\* a triggerOnChange that forgets to flush the read caches
triggerOnChangeNoFlush(I, action, silent) ==
    debounceCall([I EXCEPT !.lastChange = now],
                 [action |-> action, silent |-> silent])

\* a triggerOnChange that counts the mutating call itself
triggerOnChangeCounting(I, action, silent) ==
    debounceCall(cacheFlush([I EXCEPT !.lastChange = now, !.changesCount = @ + 1]),
                 [action |-> action, silent |-> silent])

triggerOnChange(I, action, silent) ==
    debounceCall(cacheFlush([I EXCEPT !.lastChange = now]),
                 [action |-> action, silent |-> silent])

errorsCount(I) == size(I.errors)
requiredErrorsCount(I) == Cardinality(I.requiredErrors)

getPayload(I) ==
    [ changed |-> I.changed,
      changesCount |-> I.changesCount,
      errors |-> I.errors,
      errorsCount |-> errorsCount(I),
      lastChange |-> I.lastChange,
      lastSubmit |-> I.lastSubmit,
      requiredErrorsCount |-> requiredErrorsCount(I),
      value |-> I.value ]

\* get(path, defaultValue): the value returned ...
get(I, path, defaultValue) ==
    LET cacheValue == cacheGet(I, "get", path)
    IN  IF ~isUndefined(cacheValue) THEN cacheValue
        ELSE lodashGet(I.value, path, defaultValue)

\* ... and the Instance it leaves (the result is cached)
getCaching(I, path, defaultValue) ==
    LET cacheValue == cacheGet(I, "get", path)
    IN  IF ~isUndefined(cacheValue) THEN I
        ELSE cacheSet(I, "get", path, lodashGet(I.value, path, defaultValue))

getError(I, path) ==
    LET cacheValue == cacheGet(I, "error", path)
    IN  IF ~isUndefined(cacheValue) THEN cacheValue
        ELSE lodashGet(I.errors, path, Null)

getErrorCaching(I, path) ==
    LET cacheValue == cacheGet(I, "error", path)
    IN  IF ~isUndefined(cacheValue) THEN I
        ELSE cacheSet(I, "error", path, lodashGet(I.errors, path, Null))

set(I, path, x, silent) ==
    triggerOnChange([I EXCEPT !.value = lodashSet(I.value, path, x)], "SET", silent)

\* a setError without the guard on the empty message
setErrorWritingEmpty(I, path, x, silent, requiredError) ==
    LET J == [I EXCEPT !.errors = lodashSet(I.errors, path, x),
                       !.requiredErrors =
                           IF requiredError THEN requiredErrorsAdd(@, path) ELSE @]
    IN  triggerOnChange(J, "SET", silent)

setError(I, path, x, silent, requiredError) ==
    IF isString(x) /\ isEmpty(x) THEN I
    ELSE LET J == [I EXCEPT !.errors = lodashSet(I.errors, path, x),
                            !.requiredErrors =
                                IF requiredError THEN requiredErrorsAdd(@, path) ELSE @]
         IN  triggerOnChange(J, "SET", silent)

\* a variant that removes the index of an array of errors instead of nulling it
unsetErrorSplicing(I, path, silent) ==
    LET parentPath == SubSeq(path, 1, Len(path) - 1)
        parent == baseGet(I.errors, parentPath)
        k == path[Len(path)]
        spliced == Arr(SubSeq(parent.el, 1, Idx(k))
                       \o SubSeq(parent.el, Idx(k) + 2, Len(parent.el)))
        cleaned == IF Len(path) > 1 /\ parent.t = "array" /\ isIndex(k)
                      /\ Idx(k) < Len(parent.el)
                   THEN deepClean(lodashSet(I.errors, parentPath, spliced), TRUE)
                   ELSE deepClean(lodashSet(I.errors, path, Null), TRUE)
        J == [I EXCEPT !.errors = cleaned,
                       !.requiredErrors = requiredErrorsRemove(@, path)]
    IN  triggerOnChange(J, "SET", silent)

unsetError(I, path, silent) ==
    LET J == [I EXCEPT !.errors = deepClean(lodashSet(I.errors, path, Null), TRUE),
                       !.requiredErrors = requiredErrorsRemove(@, path)]
    IN  triggerOnChange(J, "SET", silent)

clear(I, silent) ==
    triggerOnChange([I EXCEPT !.errors = EmptyObj, !.requiredErrors = {},
                              !.value = EmptyObj], "CLEAR", silent)

clearErrors(I, silent) ==
    triggerOnChange([I EXCEPT !.errors = EmptyObj, !.requiredErrors = {}],
                    "CLEAR_ERRORS", silent)

\* { ...this.value, ...value }
patch(I, x, silent) ==
    LET a == IF isPlainObject(I.value) THEN I.value.kv ELSE NoProps
        b == IF isPlainObject(x) THEN x.kv ELSE NoProps
        merged == Obj([k \in (DOMAIN a) \cup (DOMAIN b) |->
                          IF k \in DOMAIN b THEN b[k] ELSE a[k]])
    IN  triggerOnChange([I EXCEPT !.value = merged], "SET", silent)

replace(I, x, silent) ==
    triggerOnChange([I EXCEPT !.value = x], "REPLACE", silent)

historyAction(I, action, x, silent) ==
    LET J == [I EXCEPT !.value = x]
    IN  CASE action = "REDO" -> triggerOnChange(J, "HISTORY_REDO", silent)
          [] action = "REPLACE" -> triggerOnChange(J, "HISTORY_REPLACE", silent)
          [] action = "UNDO" -> triggerOnChange(J, "HISTORY_UNDO", silent)
          [] OTHER -> J

\* onChange(listener) and the unsubscribe function it returns
\* the arguments of onChange that are functions; any other argument is not
Functions == {"l1", "l2", "useFormHistory"}

\* an onChange that registers whatever it is given
onChangeUnchecked(I, listener) == [I EXCEPT !.onChangeListeners = @ \cup {listener}]

\* onChange: the Instance it leaves; a throw leaves it as it was
onChange(I, listener) ==
    IF listener \notin Functions THEN I
    ELSE [I EXCEPT !.onChangeListeners = @ \cup {listener}]

\* ... and the message of the Error it throws, "" when it returns
onChangeThrows(listener) ==
    IF listener \notin Functions THEN "listener must be a function." ELSE ""

\* an unsubscribe function that leaves the listener subscribed while a
\* notification is pending
unsubscribeWhenIdle(I, listener) ==
    IF I.timer.pending THEN I ELSE [I EXCEPT !.onChangeListeners = @ \ {listener}]

unsubscribe(I, listener) == [I EXCEPT !.onChangeListeners = @ \ {listener}]

\* items is a Set: add keeps the insertion order and ignores a member, delete removes
registerItem(I, item) ==
    IF \E i \in 1..Len(I.items) : I.items[i] = item THEN I
    ELSE [I EXCEPT !.items = Append(@, item)]

unregisterItem(I, item) ==
    [I EXCEPT !.items = SelectSeq(@, LAMBDA x : x # item)]

\* a notification that leaves its timer armed, as an interval timer would
triggerOnChangeRepeating(I) ==
    [I EXCEPT !.changesCount = @ + 1,
              !.changed = I.lastChange > I.lastSubmit]

\* the debounced function itself, run when the timer expires
triggerOnChangeDebounced(I) ==
    [I EXCEPT !.changesCount = @ + 1,
              !.changed = I.lastChange > I.lastSubmit,
              !.timer = [pending |-> FALSE, args |-> NoArgs]]

---------------------------------------------------------------------------
(* Form.List: the key table and the structural operations *)

ListPath == <<"l">>
ItemPath(index) == ListPath \o <<Seg(index)>>

\* a slot of keyManager.current.keys that holds undefined (or is a hole)
NoKey == -1

\* Array.prototype.slice(start, end) and slice(start)
slice(s, start, end) ==
    IF start >= Len(s) \/ end <= start THEN <<>>
    ELSE SubSeq(s, start + 1, IF end > Len(s) THEN Len(s) ELSE end)

sliceFrom(s, start) == slice(s, start, Len(s))

\* lodash reject(array, (_, index_) => index === index_)
reject(s, index) ==
    IF index < 0 \/ index >= Len(s) THEN s
    ELSE slice(s, 0, index) \o sliceFrom(s, index + 1)

\* move(array, moveIndex, toIndex)
move(array, moveIndex, toIndex) ==
    LET n == Len(array)
    IN  IF moveIndex < 0 \/ moveIndex >= n \/ toIndex < 0 \/ toIndex >= n THEN array
        ELSE IF moveIndex - toIndex > 0 THEN
            slice(array, 0, toIndex) \o <<array[moveIndex + 1]>>
                \o slice(array, toIndex, moveIndex) \o slice(array, moveIndex + 1, n)
        ELSE IF moveIndex - toIndex < 0 THEN
            slice(array, 0, moveIndex) \o slice(array, moveIndex + 1, toIndex + 1)
                \o <<array[moveIndex + 1]>> \o slice(array, toIndex + 1, n)
        ELSE array

\* keys[index], undefined past the end
keyAt(K, index) ==
    IF index >= 0 /\ index < Len(K.keys) THEN K.keys[index + 1] ELSE NoKey

\* a getKey that mints a new id on every read
getKeyMinting(K, index) ==
    [ keyManager |->
        [ keys |-> [i \in 1..(IF index + 1 > Len(K.keys) THEN index + 1 ELSE Len(K.keys)) |->
                       IF i = index + 1 THEN K.id
                       ELSE IF i <= Len(K.keys) THEN K.keys[i] ELSE NoKey],
          id |-> K.id + 1 ],
      ret |-> K.id ]

\* getKey(index): the key table it leaves, and the key it returns
getKey(K, index) ==
    IF keyAt(K, index) = NoKey
    THEN [ keyManager |->
             [ keys |-> [i \in 1..(IF index + 1 > Len(K.keys) THEN index + 1 ELSE Len(K.keys)) |->
                            IF i = index + 1 THEN K.id
                            ELSE IF i <= Len(K.keys) THEN K.keys[i] ELSE NoKey],
               id |-> K.id + 1 ],
           ret |-> K.id ]
    ELSE [keyManager |-> K, ret |-> keyAt(K, index)]

\* the list at the path: form.get(path, [])
listItems(I) == get(I, ListPath, EmptyArr).el

\* handleAdd(value, index): the Instance and key table it leaves, and the key returned
handleAdd(I, K, value, index) ==
    IF ~Truthy(value) THEN [form |-> I, keyManager |-> K, ret |-> 0]
    ELSE LET items == listItems(I)
             J == getCaching(I, ListPath, EmptyArr)
             key == K.id
             itemsSize == Len(items)
         IN  IF index >= 0 /\ index <= itemsSize
             THEN [ form |-> set(J, ListPath,
                                 Arr(slice(items, 0, index) \o <<value>> \o sliceFrom(items, index)),
                                 FALSE),
                    keyManager |-> [ keys |-> slice(K.keys, 0, index) \o <<key>>
                                                \o sliceFrom(K.keys, index),
                                     id |-> K.id + 1 ],
                    ret |-> key ]
             ELSE [ form |-> set(J, ListPath, Arr(items \o <<value>>), FALSE),
                    keyManager |-> [keys |-> K.keys \o <<key>>, id |-> K.id + 1],
                    ret |-> key ]

\* a handleMove that carries the error across but not its required flag
relocateErrorWithoutFlag(I, error, requiredError, path) ==
    IF Truthy(error) THEN setError(I, path, error, FALSE, FALSE) ELSE I

\* the second half of handleMove: an endpoint's error is set at the other endpoint
relocateError(I, error, requiredError, path) ==
    IF Truthy(error)
    THEN LET J == setError(I, path, error, FALSE, FALSE)
         IN  IF requiredError
             THEN [J EXCEPT !.requiredErrors = requiredErrorsAdd(@, path)]
             ELSE J
    ELSE I

\* handleMove(from, to)
handleMove(I, K, from, to) ==
    IF from = to THEN [form |-> I, keyManager |-> K]
    ELSE LET items == listItems(I)
             J == getCaching(I, ListPath, EmptyArr)
             itemsSize == Len(items)
         IN  IF from < 0 \/ from >= itemsSize \/ to < 0 \/ to >= itemsSize
             THEN [form |-> J, keyManager |-> K]
             ELSE LET fromError == getError(J, ItemPath(from))
                      J1 == getErrorCaching(J, ItemPath(from))
                      fromRequiredError == requiredErrorsHas(J1.requiredErrors, ItemPath(from))
                      toError == getError(J1, ItemPath(to))
                      J2 == getErrorCaching(J1, ItemPath(to))
                      toRequiredError == requiredErrorsHas(J2.requiredErrors, ItemPath(to))
                      J3 == unsetError(J2, ItemPath(from), FALSE)
                      J4 == unsetError(J3, ItemPath(to), FALSE)
                      J5 == relocateError(J4, fromError, fromRequiredError, ItemPath(to))
                      J6 == relocateError(J5, toError, toRequiredError, ItemPath(from))
                  IN  [ form |-> set(J6, ListPath, Arr(move(items, from, to)), FALSE),
                        keyManager |-> [K EXCEPT !.keys = move(K.keys, from, to)] ]

\* a handleDelete that removes the item and leaves the key table as it was
handleDeleteKeepingKeys(I, K, index) ==
    LET items == listItems(I)
        J == getCaching(I, ListPath, EmptyArr)
        J2 == unsetError(J, ItemPath(index), FALSE)
    IN  [ form |-> set(J2, ListPath, Arr(reject(items, index)), FALSE),
          keyManager |-> K ]

\* handleDelete(index)
handleDelete(I, K, index) ==
    LET items == listItems(I)
        J == getCaching(I, ListPath, EmptyArr)
        J1 == [J EXCEPT !.requiredErrors = requiredErrorsDelete(@, ItemPath(index))]
        J2 == unsetError(J1, ItemPath(index), FALSE)
    IN  [ form |-> set(J2, ListPath, Arr(reject(items, index)), FALSE),
          keyManager |-> [K EXCEPT !.keys = reject(K.keys, index)] ]

\* List.Items: map(items, ...) calls getKey(index) for every item the filter lets through
RECURSIVE renderKeys(_, _, _)
renderKeys(K, visible, index) ==
    IF index > MaxLen + 1 THEN K
    ELSE renderKeys(IF index \in visible THEN getKey(K, index).keyManager ELSE K,
                    visible, index + 1)

\* localIndex of a rendered item, and the first / last flags of its itemProps
localIndex(visible, index) == Cardinality({i \in visible : i < index})
first(visible, index) == localIndex(visible, index) = 0
isLast(visible, index) == localIndex(visible, index) >= Cardinality(visible) - 1

\* moveDown: the index handleMove is called with (the filter answers for the
\* items of the render; itemsSize is the number of filtered items)
RECURSIVE scanDown(_, _)
scanDown(visible, nextIndex) ==
    IF nextIndex < Cardinality(visible) /\ nextIndex \notin visible
    THEN scanDown(visible, nextIndex + 1)
    ELSE nextIndex

\* moveUp: likewise, towards the start
RECURSIVE scanUp(_, _)
scanUp(visible, prevIndex) ==
    IF prevIndex >= 0 /\ prevIndex \notin visible
    THEN scanUp(visible, prevIndex - 1)
    ELSE prevIndex

---------------------------------------------------------------------------
(* Form.Item: the inner value, the debounced report and the immediate one *)

Num(n) == [t |-> "number", n |-> n]

\* value.toString(), the transformOut of the tests
toString(value) == IF value.t = "number" THEN Str(Seg(value.n)) ELSE value

\* lodash trim, on the strings typed here: all whitespace, or none of it
trim(s) == IF s = " " THEN "" ELSE s

trimString(value) == IF isString(value) THEN Str(trim(value.s)) ELSE value

propDefaultValue == Str("")
propEmptyValue == Str("")

\* the two fields of the form and their props
FieldIds == {"n", "e"}
Props ==
    [ f \in FieldIds |->
        IF f = "n"
        THEN [path |-> <<"n">>, required |-> FALSE, transformOut |-> FALSE]
        ELSE [path |-> <<"a", "b">>, required |-> TRUE, transformOut |-> TRUE] ]

\* an Item that is not mounted
NoField ==
    [ mounted |-> FALSE, error |-> Null, value |-> Undefined,
      userInputPendingReport |-> FALSE, timer |-> FALSE, seen |-> 0 ]

\* transformInRef: no transformIn prop, the value of the store or the default
transformInRef(I, f) == get(I, Props[f].path, propDefaultValue)

\* transformOutRef: the prop's result unless it is undefined
transformOutRef(f, value) ==
    IF Props[f].transformOut
    THEN LET newValue == toString(value)
         IN  IF ~isUndefined(newValue) THEN newValue ELSE value
    ELSE value

\* a reportForm that compares the value as typed, untrimmed, with the empty value
reportFormUntrimmed(I, F, f) ==
    LET transformed == transformOutRef(f, F[f].value)
        I1 == set(I, Props[f].path, transformed, FALSE)
        F1 == [F EXCEPT ![f].userInputPendingReport = FALSE]
    IN  IF Props[f].required /\ F[f].value = propEmptyValue
        THEN [ form |-> setError(I1, Props[f].path, Str("Required Field."), FALSE, TRUE),
               fields |-> F1 ]
        ELSE [form |-> unsetError(I1, Props[f].path, FALSE), fields |-> F1]

\* reportForm: the Instance and the fields it leaves
reportForm(I, F, f) ==
    LET transformed == transformOutRef(f, F[f].value)
        I1 == set(I, Props[f].path, transformed, FALSE)
        F1 == [F EXCEPT ![f].userInputPendingReport = FALSE]
    IN  IF Props[f].required /\ trimString(F[f].value) = propEmptyValue
        THEN [ form |-> setError(I1, Props[f].path, Str("Required Field."), FALSE, TRUE),
               fields |-> F1 ]
        ELSE [form |-> unsetError(I1, Props[f].path, FALSE), fields |-> F1]

\* a reportFormImmediate that reports and leaves the debounced report armed
reportFormImmediateWithoutCancel(I, F, f) == reportForm(I, F, f)

\* item.reportFormImmediate: cancel the debounced report, then report
reportFormImmediate(I, F, f) == reportForm(I, [F EXCEPT ![f].timer = FALSE], f)

\* requestImmediateValue: items.forEach(item => item.reportFormImmediate())
RECURSIVE reportEach(_, _, _)
reportEach(I, F, items) ==
    IF items = <<>> THEN [form |-> I, fields |-> F]
    ELSE LET r == reportFormImmediate(I, F, Head(items))
         IN  reportEach(r.form, r.fields, Tail(items))

requestImmediateValue(I, F) == reportEach(I, F, I.items)

\* handleChange(value): the typed value is kept and its report is (re)armed
handleChange(F, f, value) ==
    [F EXCEPT ![f].userInputPendingReport = TRUE, ![f].timer = TRUE, ![f].value = value]

\* reportFormDelayed.current.cancel(): the scheduled report of the field is dropped
cancel(F, f) == [F EXCEPT ![f].timer = FALSE]

\* the Item is gone: its refs are released unless a scheduled report still holds them
released(F, f) ==
    [F EXCEPT ![f] = IF @.timer THEN [@ EXCEPT !.mounted = FALSE] ELSE NoField]

\* a cleanup that unregisters the item and leaves the debounced report scheduled
cleanupWithoutCancel(I, F, f) ==
    [form |-> unregisterItem(I, f), fields |-> released(F, f)]

\* the cleanup of the setup effect: cancel the debounced report, unregister the item
cleanup(I, F, f) ==
    [form |-> unregisterItem(I, f), fields |-> released(cancel(F, f), f)]

---------------------------------------------------------------------------
(* useFormHistory: the history buffer and the two handlers that bridge it *)

\* the history buffer of useHistoryState (use-good-hooks), as the specification
\* describes it: a capacity-bounded stack of snapshots with undo and redo
useHistoryState(initialState) ==
    [past |-> <<>>, present |-> initialState, future |-> <<>>, initial |-> initialState]

canUndo(H) == Len(H.past) > 0
canRedo(H) == Len(H.future) > 0

\* historyActions.set: a new snapshot; the oldest is evicted beyond the capacity
historySet(H, state) ==
    LET past == Append(H.past, H.present)
    IN  [H EXCEPT !.past = IF Len(past) > maxCapacity THEN Tail(past) ELSE past,
                  !.present = state,
                  !.future = <<>>]

\* historyActions.replace: the current slot is updated in place
historyReplace(H, state) == [H EXCEPT !.present = state]

historyUndo(H) ==
    IF ~canUndo(H) THEN H
    ELSE [H EXCEPT !.past = SubSeq(@, 1, Len(@) - 1),
                   !.present = H.past[Len(H.past)],
                   !.future = <<H.present>> \o @]

historyRedo(H) ==
    IF ~canRedo(H) THEN H
    ELSE [H EXCEPT !.past = Append(@, H.present),
                   !.present = H.future[1],
                   !.future = Tail(@)]

historyInitial(H) == useHistoryState(H.initial)

\* the listener useFormHistory subscribes with
HistoryListener == "useFormHistory"

\* an action tag, split after its HISTORY_ prefix
ActionChars(action) ==
    CASE action = "HISTORY_REDO" -> <<"HISTORY_", "REDO">>
      [] action = "HISTORY_REPLACE" -> <<"HISTORY_", "REPLACE">>
      [] action = "HISTORY_UNDO" -> <<"HISTORY_", "UNDO">>
      [] OTHER -> <<action>>

\* a useFormHistory whose undo changes the buffer and not the store
historyOnChangeRedoOnly(I, action, state) ==
    CASE action = "INITIAL" -> clear(I, FALSE)
      [] action = "REDO" -> historyAction(I, action, state, FALSE)
      [] OTHER -> I

\* the onChange option: the history buffer reports what it has done
historyOnChange(I, action, state) ==
    CASE action = "INITIAL" -> clear(I, FALSE)
      [] action \in {"REDO", "UNDO"} -> historyAction(I, action, state, FALSE)
      [] OTHER -> I

\* a listener that records every notification, whatever its tag
historyListenerRecordingAll(H, payload, args) == historySet(H, payload.value)

\* a listener that records a history-tagged replacement as a new snapshot
historyListenerPushingReplace(H, payload, args) ==
    IF args.action = "HISTORY_REPLACE" \/ ~startsWith(ActionChars(args.action), <<"HISTORY_">>)
    THEN historySet(H, payload.value)
    ELSE H

\* the listener of the second useFormHistory of the file (use-form-history.ts
\* 84-94), which tests the changed flag and the silent flag instead of the tag
historyListenerCheckingSilent(H, payload, args) ==
    IF payload.changed /\ ~args.silent THEN historySet(H, payload.value) ELSE H

\* the instance.onChange listener: the history buffer it leaves
historyListener(H, payload, args) ==
    LET H1 == IF args.action = "HISTORY_REPLACE"
              THEN historyReplace(H, payload.value) ELSE H
    IN  IF ~startsWith(ActionChars(args.action), <<"HISTORY_">>)
        THEN historySet(H1, payload.value)
        ELSE H1

---------------------------------------------------------------------------
(* What the variables hold where a specification does not use them *)

Listeners == {"l1", "l2"}
NoPayload == [value |-> Undefined]
NoCalls == [l \in Listeners |-> [count |-> 0, payload |-> NoPayload, options |-> NoArgs]]
NoKeys == [keys |-> <<>>, id |-> 0]
NoRender == [mounted |-> FALSE, visible |-> {}, hidden |-> {}]
NoFields == <<>>
NoHistory == [past |-> <<>>, present |-> Undefined, future |-> <<>>, initial |-> Undefined]

\* every mutating call counts towards the current burst
Mutated == burst' = IF burst < MaxBurst THEN burst + 1 ELSE burst

---------------------------------------------------------------------------
(* The store: get, set and the debounced notification *)

ValuePaths == {<<"n">>, <<"a", "b">>}
Values == {Str("x"), Str("y")}
Defaults == {Undefined, Str("d")}
ErrorPaths == {<<"a">>, <<"a", "b">>, <<"l", "0">>, <<"l", "1">>}
Messages == {Str("e"), Str("")}

InitStore ==
    /\ instance = NewInstance(Undefined)
    /\ now = 1
    /\ keyManager = NoKeys
    /\ rendered = NoRender
    /\ fields = NoFields
    /\ history = NoHistory
    /\ calls = NoCalls
    /\ burst = 0
    /\ last = [op |-> "new"]

Get(path, defaultValue) ==
    /\ instance' = getCaching(instance, path, defaultValue)
    /\ last' = [op |-> "get", path |-> path, defaultValue |-> defaultValue,
                ret |-> get(instance, path, defaultValue)]
    /\ UNCHANGED <<now, keyManager, rendered, fields, history, calls, burst>>

Set(path, x, silent) ==
    /\ burst < MaxBurst
    /\ instance' = set(instance, path, x, silent)
    /\ Mutated
    /\ last' = [op |-> "set", path |-> path, x |-> x, silent |-> silent,
                \* a get of this path was cached and differs from x
                stale |-> ~isUndefined(cacheGet(instance, "get", path))
                          /\ cacheGet(instance, "get", path) # x]
    /\ UNCHANGED <<now, keyManager, rendered, fields, history, calls>>

Clear(silent) ==
    /\ burst < MaxBurst
    /\ instance' = clear(instance, silent)
    /\ Mutated
    /\ last' = [op |-> "clear"]
    /\ UNCHANGED <<now, keyManager, rendered, fields, history, calls>>

\* patch(value): the own properties of value are merged over the value
Patch(x, silent) ==
    /\ burst < MaxBurst
    /\ instance' = patch(instance, x, silent)
    /\ Mutated
    /\ last' = [op |-> "patch", x |-> x]
    /\ UNCHANGED <<now, keyManager, rendered, fields, history, calls>>

\* replace(value)
Replace(x, silent) ==
    /\ burst < MaxBurst
    /\ instance' = replace(instance, x, silent)
    /\ Mutated
    /\ last' = [op |-> "replace", x |-> x]
    /\ UNCHANGED <<now, keyManager, rendered, fields, history, calls>>

SetError(path, x, silent, requiredError) ==
    /\ burst < MaxBurst
    /\ instance' = setError(instance, path, x, silent, requiredError)
    /\ burst' = IF instance' = instance THEN burst
                ELSE IF burst < MaxBurst THEN burst + 1 ELSE burst
    /\ last' = [op |-> "setError", path |-> path, x |-> x]
    /\ UNCHANGED <<now, keyManager, rendered, fields, history, calls>>

UnsetError(path, silent) ==
    /\ burst < MaxBurst
    /\ instance' = unsetError(instance, path, silent)
    /\ Mutated
    /\ last' = [op |-> "unsetError", path |-> path]
    /\ UNCHANGED <<now, keyManager, rendered, fields, history, calls>>

ClearErrors(silent) ==
    /\ burst < MaxBurst
    /\ instance' = clearErrors(instance, silent)
    /\ Mutated
    /\ last' = [op |-> "clearErrors"]
    /\ UNCHANGED <<now, keyManager, rendered, fields, history, calls>>

GetError(path) ==
    /\ instance' = getErrorCaching(instance, path)
    /\ last' = [op |-> "getError", path |-> path, ret |-> getError(instance, path)]
    /\ UNCHANGED <<now, keyManager, rendered, fields, history, calls, burst>>

OnChange(listener) ==
    /\ listener \notin instance.onChangeListeners
    /\ instance' = onChange(instance, listener)
    /\ last' = [op |-> "onChange", listener |-> listener]
    /\ UNCHANGED <<now, keyManager, rendered, fields, history, calls, burst>>

Unsubscribe(listener) ==
    /\ listener \in instance.onChangeListeners
    /\ instance' = unsubscribe(instance, listener)
    /\ last' = [op |-> "unsubscribe", listener |-> listener]
    /\ UNCHANGED <<now, keyManager, rendered, fields, history, calls, burst>>

\* the listeners, each called with (payload, {action, silent})
notify(I, args) ==
    [l \in Listeners |->
        IF l \in I.onChangeListeners
        THEN [count |-> calls[l].count + 1, payload |-> getPayload(I), options |-> args]
        ELSE calls[l]]

\* the debounce timer expires: 10 ms have passed since the latest call
TimerFires ==
    /\ instance.timer.pending
    /\ instance.changesCount < MaxChanges
    /\ instance' = triggerOnChangeDebounced(instance)
    /\ calls' = notify(instance', instance.timer.args)
    /\ burst' = 0
    /\ history' = IF HistoryListener \in instance.onChangeListeners
                  THEN historyListener(history, getPayload(instance'), instance.timer.args)
                  ELSE history
    /\ last' = [op |-> "notify", args |-> instance.timer.args, burst |-> burst]
    /\ UNCHANGED <<now, keyManager, rendered, fields>>

NextStore ==
    \/ \E p \in ValuePaths, d \in Defaults : Get(p, d)
    \/ \E p \in ValuePaths, x \in Values : Set(p, x, FALSE)
    \/ Clear(FALSE)
    \/ TimerFires

SpecStore == InitStore /\ [][NextStore]_vars

\* the notification protocol: bursts of mutations, listeners, the timer
NextNotify ==
    \/ \E x \in Values, s \in BOOLEAN : Set(<<"n">>, x, s)
    \/ SetError(<<"a">>, Str("e"), FALSE, FALSE)
    \/ UnsetError(<<"a">>, FALSE)
    \/ \E l \in Listeners : OnChange(l)
    \/ \E l \in Listeners : Unsubscribe(l)
    \/ TimerFires

SpecNotify == InitStore /\ [][NextNotify]_vars

---------------------------------------------------------------------------
(* The errors: setError, unsetError and deepClean *)

NextErrors ==
    \/ \E p \in ErrorPaths, x \in Messages, r \in BOOLEAN : SetError(p, x, FALSE, r)
    \/ \E p \in ErrorPaths : UnsetError(p, FALSE)
    \/ \E p \in ErrorPaths : GetError(p)
    \/ ClearErrors(FALSE)
    \/ TimerFires

SpecErrors == InitStore /\ [][NextErrors]_vars

---------------------------------------------------------------------------
(* The list: renders, the public add / delete / moveUp / moveDown, item errors *)

InitialLists == {<<Str("A"), Str("B"), Str("C")>>}
AddValues == {Str("D")}

\* the filter prop of List.Items: none, or one that hides the items of one value
Filters == {{}, {Str("B")}, {Str("C")}}
filterFn(hidden, item) == item \notin hidden

InitList ==
    /\ \E items \in InitialLists :
          instance = NewInstance(Obj([k \in {"l"} |-> Arr(items)]))
    /\ now = 1
    /\ keyManager = NoKeys
    /\ \E hidden \in Filters : rendered = [NoRender EXCEPT !.hidden = hidden]
    /\ fields = NoFields
    /\ history = NoHistory
    /\ calls = NoCalls
    /\ burst = 0
    /\ last = [op |-> "new"]

\* List and List.Items render: the list is read, every item the filter lets
\* through gets its key, and the handlers close over this render
Render ==
    LET items == listItems(instance)
        visible == {i \in 0..(Len(items) - 1) : filterFn(rendered.hidden, items[i + 1])}
    IN  /\ renderKeys(keyManager, visible, 0).id <= MaxKeyId
        /\ instance' = getCaching(instance, ListPath, EmptyArr)
        /\ keyManager' = renderKeys(keyManager, visible, 0)
        /\ rendered' = [rendered EXCEPT !.mounted = TRUE, !.visible = visible]
        /\ last' = [op |-> "render"]
        /\ UNCHANGED <<now, fields, history, calls, burst>>

\* add of List, List.Add and itemProps (max is Infinity: canAdd holds)
Add(value, index) ==
    /\ rendered.mounted
    /\ Len(listItems(instance)) < MaxLen
    /\ keyManager.id < MaxKeyId
    /\ index <= Len(listItems(instance))
    /\ LET r == handleAdd(instance, keyManager, value, index)
       IN  /\ instance' = r.form
           /\ keyManager' = r.keyManager
           /\ last' = [op |-> "add", value |-> value, index |-> index, ret |-> r.ret]
    /\ UNCHANGED <<now, rendered, fields, history, calls, burst>>

\* itemProps.delete of a rendered item (min is 0: canDelete held at the render)
Delete(index) ==
    /\ rendered.mounted
    /\ index \in rendered.visible
    /\ LET r == handleDelete(instance, keyManager, index)
       IN  /\ instance' = r.form
           /\ keyManager' = r.keyManager
    /\ last' = [op |-> "delete", index |-> index]
    /\ UNCHANGED <<now, rendered, fields, history, calls, burst>>

\* itemProps.moveDown of a rendered item
MoveDown(index) ==
    /\ rendered.mounted
    /\ index \in rendered.visible
    /\ ~isLast(rendered.visible, index)
    /\ LET to == scanDown(rendered.visible, index + 1)
           r == handleMove(instance, keyManager, index, to)
       IN  /\ instance' = r.form
           /\ keyManager' = r.keyManager
           /\ last' = [op |-> "move", from |-> index, to |-> to]
    /\ UNCHANGED <<now, rendered, fields, history, calls, burst>>

\* itemProps.moveUp of a rendered item
MoveUp(index) ==
    /\ rendered.mounted
    /\ index \in rendered.visible
    /\ ~first(rendered.visible, index)
    /\ LET to == scanUp(rendered.visible, index - 1)
           r == handleMove(instance, keyManager, index, to)
       IN  /\ instance' = r.form
           /\ keyManager' = r.keyManager
           /\ last' = [op |-> "move", from |-> index, to |-> to]
    /\ UNCHANGED <<now, rendered, fields, history, calls, burst>>

\* a field bound to the item itself reports: an error, required or not, or none
ItemSetError(index, requiredError) ==
    /\ index < Len(listItems(instance))
    /\ instance' = setError(instance, ItemPath(index), Str("e"), FALSE, requiredError)
    /\ last' = [op |-> "setError", path |-> ItemPath(index), x |-> Str("e")]
    /\ UNCHANGED <<now, keyManager, rendered, fields, history, calls, burst>>

ItemUnsetError(index) ==
    /\ index < Len(listItems(instance))
    /\ instance' = unsetError(instance, ItemPath(index), FALSE)
    /\ last' = [op |-> "unsetError", path |-> ItemPath(index)]
    /\ UNCHANGED <<now, keyManager, rendered, fields, history, calls, burst>>

\* the structure of the list and its keys
NextList ==
    \/ Render
    \/ \E value \in AddValues, index \in -1..MaxLen : Add(value, index)
    \/ \E index \in 0..(MaxLen - 1) : Delete(index)
    \/ \E index \in 0..(MaxLen - 1) : MoveDown(index)
    \/ \E index \in 0..(MaxLen - 1) : MoveUp(index)

\* the errors of the items while the list is reordered and shrinks
NextListErrors ==
    \/ Render
    \/ \E index \in 0..(MaxLen - 1) : Delete(index)
    \/ \E index \in 0..(MaxLen - 1) : MoveDown(index)
    \/ \E index \in 0..(MaxLen - 1) : MoveUp(index)
    \/ \E index \in 0..(MaxLen - 1), r \in BOOLEAN : ItemSetError(index, r)
    \/ \E index \in 0..(MaxLen - 1) : ItemUnsetError(index)

SpecList == InitList /\ [][NextList]_vars
SpecListErrors == InitList /\ [][NextListErrors]_vars

---------------------------------------------------------------------------
(* The fields: typing, the debounced report, the sync effect, the submit flush *)

Typed == {Num(1), Str("x"), Str(" ")}

InitItem ==
    /\ instance = NewInstance(EmptyObj)
    /\ now = 1
    /\ keyManager = NoKeys
    /\ rendered = NoRender
    /\ fields = [f \in FieldIds |-> NoField]
    /\ history = NoHistory
    /\ calls = NoCalls
    /\ burst = 0
    /\ last = [op |-> "new"]

\* the clock advances
Tick ==
    /\ now < MaxNow
    /\ now' = now + 1
    /\ last' = [op |-> "tick"]
    /\ UNCHANGED <<instance, keyManager, rendered, fields, history, calls, burst>>

\* first render of an Item and its setup effect
Mount(f) ==
    /\ ~fields[f].mounted
    /\ fields' = [fields EXCEPT ![f] =
                    [ mounted |-> TRUE,
                      error |-> getError(instance, Props[f].path),
                      value |-> transformInRef(instance, f),
                      userInputPendingReport |-> FALSE,
                      timer |-> FALSE,
                      seen |-> instance.lastChange ]]
    /\ instance' = registerItem(
                       getCaching(getErrorCaching(instance, Props[f].path),
                                  Props[f].path, propDefaultValue), f)
    /\ last' = [op |-> "mount", f |-> f]
    /\ UNCHANGED <<now, keyManager, rendered, history, calls, burst>>

\* the cleanup of the setup effect
Unmount(f) ==
    /\ fields[f].mounted
    /\ LET r == cleanup(instance, fields, f)
       IN  instance' = r.form /\ fields' = r.fields
    /\ last' = [op |-> "unmount", f |-> f, cancelled |-> fields[f].timer]
    /\ UNCHANGED <<now, keyManager, rendered, history, calls, burst>>

\* the user types
HandleChange(f, value) ==
    /\ fields[f].mounted
    /\ fields' = handleChange(fields, f, value)
    /\ last' = [op |-> "handleChange", f |-> f]
    /\ UNCHANGED <<instance, now, keyManager, rendered, history, calls, burst>>

\* the debounced report of a field fires: a scheduled timeout runs whether or
\* not the Item that scheduled it is still mounted
ItemTimerFires(f) ==
    /\ fields[f].timer
    /\ LET r == reportForm(instance, [fields EXCEPT ![f].timer = FALSE], f)
       IN  instance' = r.form /\ fields' = r.fields
    /\ last' = [op |-> "reportForm", f |-> f]
    /\ UNCHANGED <<now, keyManager, rendered, history, calls, burst>>

\* the effect on [instance, instance.lastChange] runs after a render
Sync(f) ==
    /\ fields[f].mounted
    /\ fields[f].seen # instance.lastChange
    /\ LET error == getError(instance, Props[f].path)
           I1 == getErrorCaching(instance, Props[f].path)
       IN  IF fields[f].userInputPendingReport
           THEN /\ fields' = [fields EXCEPT ![f].error = error,
                                            ![f].seen = instance.lastChange]
                /\ instance' = I1
           ELSE /\ fields' = [fields EXCEPT ![f].error = error,
                                            ![f].value = transformInRef(I1, f),
                                            ![f].seen = instance.lastChange]
                /\ instance' = getCaching(I1, Props[f].path, propDefaultValue)
    /\ last' = [op |-> "sync", f |-> f]
    /\ UNCHANGED <<now, keyManager, rendered, history, calls, burst>>

\* handleSubmit calls form.requestImmediateValue()
RequestImmediateValue ==
    /\ LET r == requestImmediateValue(instance, fields)
       IN  instance' = r.form /\ fields' = r.fields
    /\ last' = [op |-> "requestImmediateValue"]
    /\ UNCHANGED <<now, keyManager, rendered, history, calls, burst>>

NextItem ==
    \/ Tick
    \/ \E f \in FieldIds : Mount(f)
    \/ \E f \in FieldIds : Unmount(f)
    \/ \E f \in FieldIds, value \in Typed : HandleChange(f, value)
    \/ \E f \in FieldIds : ItemTimerFires(f)
    \/ \E f \in FieldIds : Sync(f)
    \/ RequestImmediateValue

SpecItem == InitItem /\ [][NextItem]_vars

---------------------------------------------------------------------------
(* The history bridge: user changes, undo, redo, and the notifications *)

SeedValue == Obj([k \in {"n"} |-> Str("x")])
Replacements == {Obj([k \in {"n"} |-> Str("z")])}

\* a form with useFormHistory mounted: the buffer starts at the value of the
\* Instance and the listener is subscribed
InitHistory ==
    /\ instance = onChange(NewInstance(SeedValue), HistoryListener)
    /\ now = 1
    /\ keyManager = NoKeys
    /\ rendered = NoRender
    /\ fields = NoFields
    /\ history = useHistoryState(SeedValue)
    /\ calls = NoCalls
    /\ burst = 0
    /\ last = [op |-> "new"]

\* historyActions.undo()
Undo ==
    /\ canUndo(history)
    /\ burst < MaxBurst
    /\ history' = historyUndo(history)
    /\ instance' = historyOnChange(instance, "UNDO", history'.present)
    /\ Mutated
    /\ last' = [op |-> "undo", present |-> history.present]
    /\ UNCHANGED <<now, keyManager, rendered, fields, calls>>

\* historyActions.redo()
Redo ==
    /\ canRedo(history)
    /\ burst < MaxBurst
    /\ history' = historyRedo(history)
    /\ instance' = historyOnChange(instance, "REDO", history'.present)
    /\ Mutated
    /\ last' = [op |-> "redo"]
    /\ UNCHANGED <<now, keyManager, rendered, fields, calls>>

\* historyActions.initial()
Initial ==
    /\ canUndo(history) \/ canRedo(history)
    /\ burst < MaxBurst
    /\ history' = historyInitial(history)
    /\ instance' = historyOnChange(instance, "INITIAL", history'.present)
    /\ Mutated
    /\ last' = [op |-> "initial"]
    /\ UNCHANGED <<now, keyManager, rendered, fields, calls>>

\* the application replaces the whole value through the history-tagged call
HistoryReplace(x) ==
    /\ burst < MaxBurst
    /\ instance' = historyAction(instance, "REPLACE", x, FALSE)
    /\ Mutated
    /\ last' = [op |-> "historyAction", x |-> x]
    /\ UNCHANGED <<now, keyManager, rendered, fields, history, calls>>

NextHistory ==
    \/ \E x \in Values : Set(<<"n">>, x, FALSE)
    \/ \E x \in Replacements : HistoryReplace(x)
    \/ Undo
    \/ Redo
    \/ Initial
    \/ TimerFires

SpecHistory == InitHistory /\ [][NextHistory]_vars

\* the same bridge where every armed notification is delivered: the debounce
\* timer expires 10 ms after the latest call, and no call is made once the
\* last notification of the run has been delivered
NextHistoryLive ==
    \/ /\ instance.changesCount < MaxChanges
       /\ \/ \E x \in Values : Set(<<"n">>, x, FALSE)
          \/ \E x \in Replacements : Patch(x, FALSE)
          \/ \E x \in Replacements : Replace(x, FALSE)
          \/ Clear(FALSE)
          \/ \E x \in Replacements : HistoryReplace(x)
          \/ Undo
          \/ Redo
    \/ TimerFires

SpecHistoryLive == InitHistory /\ [][NextHistoryLive]_vars /\ WF_vars(TimerFires)

---------------------------------------------------------------------------
(* Claims about the store *)

\* what an uncached read of the path finds now
Fresh(path) ==
    LET cacheValue == cacheGet(instance, "get", path)
    IN  \/ isUndefined(cacheValue)
        \/ isUndefined(baseGet(instance.value, path))
        \/ cacheValue = baseGet(instance.value, path)

\* C1: read-your-writes. In the state right after set(p, v), get(p) returns v
\* for every default, also while the notification is still pending; and no
\* cached read is older than the latest mutation: a cached value of a path that
\* is present equals the value now at that path.
C1_ReadYourWrites ==
    /\ last.op = "set" => \A d \in Defaults : get(instance, last.path, d) = last.x
    /\ \A p \in ValuePaths : Fresh(p)

\* a set that overwrote a path whose older value a get had cached, not yet notified
C1_Witness ==
    /\ last.op = "set"
    /\ last.stale
    /\ instance.timer.pending

\* C2: debounced coalescing. No mutating call invokes a listener; when the timer
\* expires after a burst of N >= 1 mutating calls, every subscribed listener is
\* invoked exactly once, with the value and the errors as they are after the
\* N-th call, and the timer is left disarmed (no second invocation follows
\* without a new mutation).
C2_DebouncedCoalescing ==
    [][ /\ last'.op # "notify" =>
            \A l \in Listeners : calls'[l].count = calls[l].count
        /\ last'.op = "notify" =>
            /\ burst >= 1
            /\ ~instance'.timer.pending
            /\ \A l \in Listeners :
                IF l \in instance.onChangeListeners
                THEN /\ calls'[l].count = calls[l].count + 1
                     /\ calls'[l].payload.value = instance.value
                     /\ calls'[l].payload.errors = instance.errors
                ELSE calls'[l] = calls[l] ]_vars

\* a notification that closed a burst of at least two calls, to two listeners
C2_Witness ==
    /\ last.op = "notify"
    /\ last.burst >= 2
    /\ \A l \in Listeners : l \in instance.onChangeListeners /\ calls[l].count >= 1

---------------------------------------------------------------------------
(* Claims about the errors *)

RECURSIVE LeafCount(_)
\* the error messages held in a structure
LeafCount(v) ==
    CASE v.t = "string" -> 1
      [] v.t = "object" ->
            LET f[S \in SUBSET DOMAIN v.kv] ==
                    IF S = {} THEN 0
                    ELSE LET k == CHOOSE k \in S : TRUE
                         IN  LeafCount(v.kv[k]) + f[S \ {k}]
            IN  f[DOMAIN v.kv]
      [] v.t = "array" ->
            LET g[i \in 0..Len(v.el)] ==
                    IF i = 0 THEN 0 ELSE LeafCount(v.el[i]) + g[i - 1]
            IN  g[Len(v.el)]
      [] OTHER -> 0

RECURSIVE Pruned(_, _)
\* no key holds null, and no container below the root is without a message
\* (an array keeps null at the indices that have no error)
Pruned(v, isRoot) ==
    CASE v.t = "object" ->
            /\ isRoot \/ LeafCount(v) > 0
            /\ \A k \in DOMAIN v.kv : ~isNil(v.kv[k]) /\ Pruned(v.kv[k], FALSE)
      [] v.t = "array" ->
            /\ isRoot \/ LeafCount(v) > 0
            /\ \A i \in 1..Len(v.el) : isNil(v.el[i]) \/ Pruned(v.el[i], FALSE)
      [] OTHER -> TRUE

\* C3: empty-error pruning. After any sequence of setError and unsetError calls
\* the errors hold no key whose value is null and no container whose
\* descendants are all null or empty; with no error left, errors is {}.
C3_EmptyErrorPruning ==
    /\ Pruned(instance.errors, TRUE)
    /\ LeafCount(instance.errors) = 0 => instance.errors = EmptyObj


---------------------------------------------------------------------------
(* Claims about the list *)

itemsSize(I) == Len(listItems(I))
validIndex(I, index) == index >= 0 /\ index < itemsSize(I)

\* the item at an index has an assigned key
hasKey(K, index) == keyAt(K, index) # NoKey

\* where the item at index j of the old array stands after move(from, to)
movedTo(from, to, j) ==
    IF j = from THEN to
    ELSE IF from < to /\ j > from /\ j <= to THEN j - 1
    ELSE IF to < from /\ j >= to /\ j < from THEN j + 1
    ELSE j

\* C4: after move(from, to) with valid distinct indices, the error and the
\* required flag that were at [...path, from] are at [...path, to], those that
\* were at [...path, to] are at [...path, from], and the errors at every other
\* index of the list are unchanged
C4_MoveEndpointSwap ==
    [][ ( /\ last'.op = "move"
          /\ last'.from # last'.to
          /\ validIndex(instance, last'.from)
          /\ validIndex(instance, last'.to) )
        => /\ getError(instance', ItemPath(last'.to)) = getError(instance, ItemPath(last'.from))
           /\ getError(instance', ItemPath(last'.from)) = getError(instance, ItemPath(last'.to))
           /\ requiredErrorsHas(instance'.requiredErrors, ItemPath(last'.to))
                = requiredErrorsHas(instance.requiredErrors, ItemPath(last'.from))
           /\ requiredErrorsHas(instance'.requiredErrors, ItemPath(last'.from))
                = requiredErrorsHas(instance.requiredErrors, ItemPath(last'.to))
           /\ \A k \in 0..(itemsSize(instance) - 1) :
                k \notin {last'.from, last'.to}
                    => getError(instance', ItemPath(k)) = getError(instance, ItemPath(k))
      ]_vars

\* a move over a hidden item has carried a required error from one end to the
\* other while a third item kept its own error
C4_Witness ==
    /\ last.op = "move"
    /\ last.from = 0 /\ last.to = 2
    /\ itemsSize(instance) = 3
    /\ getError(instance, ItemPath(2)) = Str("e")
    /\ requiredErrorsHas(instance.requiredErrors, ItemPath(2))
    /\ getError(instance, ItemPath(0)) = Null
    /\ getError(instance, ItemPath(1)) = Str("e")

\* C5: when every index of the list has an assigned key, remove(i) leaves the
\* keys at the indices below i unchanged, each item formerly at j > i is
\* reported at j-1 with the key it had, and no surviving item gets a new key
C5_KeyStabilityUnderRemoval ==
    [][ ( /\ last'.op = "delete"
          /\ validIndex(instance, last'.index)
          /\ \A j \in 0..(itemsSize(instance) - 1) : hasKey(keyManager, j) )
        => /\ listItems(instance') = reject(listItems(instance), last'.index)
           /\ keyManager'.id = keyManager.id
           /\ \A j \in 0..(itemsSize(instance) - 1) :
                /\ j < last'.index
                     => getKey(keyManager', j) = [keyManager |-> keyManager', ret |-> keyAt(keyManager, j)]
                /\ j > last'.index
                     => getKey(keyManager', j - 1) = [keyManager |-> keyManager', ret |-> keyAt(keyManager, j)]
      ]_vars

\* an item in the middle of a fully keyed list of three has just been removed
C5_Witness ==
    /\ last.op = "delete"
    /\ last.index = 1
    /\ itemsSize(instance) = 2
    /\ keyManager.keys = <<0, 2>>

\* C6: after move(from, to) with valid distinct indices the array is the old
\* array with the item at from taken out and put back at to, and every item
\* that had a key has the same key at the place where it now stands
C6_MoveIsRelocation ==
    [][ ( /\ last'.op = "move"
          /\ last'.from # last'.to
          /\ validIndex(instance, last'.from)
          /\ validIndex(instance, last'.to) )
        => /\ itemsSize(instance') = itemsSize(instance)
           /\ \A j \in 0..(itemsSize(instance) - 1) :
                /\ listItems(instance')[movedTo(last'.from, last'.to, j) + 1]
                     = listItems(instance)[j + 1]
                /\ hasKey(keyManager, j)
                     => keyAt(keyManager', movedTo(last'.from, last'.to, j)) = keyAt(keyManager, j)
      ]_vars

\* C7: add(value, index) with a truthy value appends when index is negative and
\* inserts at index when 0 <= index <= size; the items and keys at and after
\* that place move one slot right, the keys of the existing items are unchanged,
\* and the returned key is the key getKey reports for the new item's place
addedAt(I, index) == IF index >= 0 /\ index <= itemsSize(I) THEN index ELSE itemsSize(I)

C7_AddReturnsTheKeyOfTheNewItem ==
    [][ last'.op = "add"
        => LET at == addedAt(instance, last'.index)
           IN  /\ listItems(instance')
                    = slice(listItems(instance), 0, at) \o <<last'.value>>
                        \o sliceFrom(listItems(instance), at)
               /\ \A j \in 0..(itemsSize(instance) - 1) :
                    hasKey(keyManager, j)
                        => keyAt(keyManager', IF j < at THEN j ELSE j + 1) = keyAt(keyManager, j)
               /\ getKey(keyManager', at).ret = last'.ret
      ]_vars

---------------------------------------------------------------------------
(* Claims about the fields *)

\* C8: when a field holds typed input whose debounced report is pending,
\* requestImmediateValue reports every registered item at once: the pending
\* report is cancelled and the typed value, after transformOut, is what the
\* store holds at the field's path, so the cancelled timer has nothing left to
\* commit later
C8_SubmitFlush ==
    [][ last'.op = "requestImmediateValue"
        => \A f \in FieldIds :
             (fields[f].mounted /\ fields[f].userInputPendingReport /\ fields[f].timer)
                => /\ get(instance', Props[f].path, Undefined)
                        = transformOutRef(f, fields[f].value)
                   /\ ~fields'[f].timer
                   /\ ~fields'[f].userInputPendingReport
      ]_vars

\* both fields had typed input pending when the form was flushed, and the store
\* holds the number typed into the transforming field as a string
C8_Witness ==
    /\ last.op = "requestImmediateValue"
    /\ Len(instance.items) = 2
    /\ get(instance, <<"a", "b">>, Undefined) = Str("1")
    /\ fields["e"].value = Num(1)
    /\ get(instance, <<"n">>, Undefined) = Str("x")
    /\ \A f \in FieldIds : ~fields[f].timer

---------------------------------------------------------------------------
(* Claims about the history bridge *)

\* C9: once a user change from v0 to v1 is recorded in the history, undo is
\* available and sets the value of the Instance to v0, redo is then available,
\* and a redo that follows sets the value to v1
C9_HistoryRoundTrip ==
    [][ /\ ( /\ last'.op = "notify"
             /\ ~startsWith(ActionChars(last'.args.action), <<"HISTORY_">>) )
            => /\ canUndo(history')
               /\ history'.present = instance.value
        /\ last'.op = "undo"
            => /\ instance'.value = history.past[Len(history.past)]
               /\ canRedo(history')
        /\ (last'.op = "redo" /\ last.op = "undo")
            => /\ instance'.value = last.present
               /\ canUndo(history')
      ]_vars

\* the change from {n: "x"} to {n: "y"} was recorded, undone, and redone
C9_Witness ==
    /\ last.op = "redo"
    /\ instance.value = Obj([k \in {"n"} |-> Str("y")])
    /\ history.past = <<SeedValue>>
    /\ history.present = instance.value
    /\ ~canRedo(history)

\* C10: a notification tagged HISTORY_UNDO or HISTORY_REDO pushes nothing onto
\* the history buffer: applying an undo or a redo to the Instance adds no
\* entry, and the notification it causes re-arms no timer
C10_NoHistoryFeedback ==
    [][ ( /\ last'.op = "notify"
          /\ last'.args.action \in {"HISTORY_UNDO", "HISTORY_REDO"} )
        => /\ history' = history
           /\ ~instance'.timer.pending
      ]_vars

\* the notification of an undo was delivered to the bridge while a redo was
\* available
C10_Witness ==
    /\ last.op = "notify"
    /\ last.args.action = "HISTORY_UNDO"
    /\ canRedo(history)
    /\ instance.value = SeedValue

\* the calls by which the user changes the value
UserOps == {"set", "patch", "replace", "clear"}

\* the notification just delivered made the bridge push the value of the Instance
Pushed ==
    /\ last.op = "notify"
    /\ ~startsWith(ActionChars(last.args.action), <<"HISTORY_">>)
    /\ history.present = instance.value

\* C11: every non-silent set, patch, replace or clear is eventually followed
\* by a history push of a snapshot of the value that holds that change
C11_UserChangeIsPushed == (last.op \in UserOps) ~> Pushed

---------------------------------------------------------------------------
(* The required flags: setError with and without the flag, unsetError *)

RequiredPaths == {<<"a">>, <<"a", "b">>, <<"a", "d", "e">>, <<"ab">>}

NextRequired ==
    \/ \E p \in RequiredPaths, r \in BOOLEAN : SetError(p, Str("e"), FALSE, r)
    \/ \E p \in RequiredPaths : UnsetError(p, FALSE)
    \/ TimerFires

SpecRequired == InitStore /\ [][NextRequired]_vars

\* the key is the joined path, or the joined path followed by "." and more
Extends(k, path) == k = Join(path) \/ startsWith(k, Join(path) \o <<".">>)

\* C13: unsetError(p) removes from the required flags exactly the keys that
\* are the dot-joined p or extend it by further dot-separated segments; every
\* other key stays
C13_RequiredFlagBulkClear ==
    [][ last'.op = "unsetError"
        => instance'.requiredErrors =
               {k \in instance.requiredErrors : ~Extends(k, last'.path)} ]_vars

\* C14: in every state reached by setError and unsetError calls, errorsCount()
\* is the number of genuine leaf error messages held in errors
C14_ErrorsCountIsLeafCount == errorsCount(instance) = LeafCount(instance.errors)

\* C15: for every path p and every reachable errors structure, the errors after
\* unsetError(p) twice in a row are the errors after unsetError(p) once
C15_IdempotentUnset ==
    \A p \in ErrorPaths :
        unsetError(unsetError(instance, p, FALSE), p, FALSE).errors
            = unsetError(instance, p, FALSE).errors

\* unsetError(["l", 0]) has nulled the first of two item errors, and a second
\* call finds nothing more to remove
C15_Witness ==
    /\ last.op = "unsetError"
    /\ last.path = <<"l", "0">>
    /\ instance.errors = Obj([k \in {"l"} |-> Arr(<<Null, Str("e")>>)])
    /\ unsetError(instance, last.path, FALSE).errors = instance.errors

\* the item at an index carries an error message / a required flag
hasError(I, j) == isString(getError(I, ItemPath(j)))
hasFlag(I, j) == requiredErrorsHas(I.requiredErrors, ItemPath(j))

\* C16: after remove(index) the error and the required flag of the removed item
\* are gone and every surviving item carries the error and the flag it carried
\* before: those of the item formerly at j > index are found at j - 1
C16_ErrorsFollowTheItemOnRemove ==
    [][ (last'.op = "delete" /\ validIndex(instance, last'.index))
        => \A j \in 0..(itemsSize(instance) - 1) :
              /\ j < last'.index
                    => /\ hasError(instance', j) = hasError(instance, j)
                       /\ hasFlag(instance', j) = hasFlag(instance, j)
              /\ j > last'.index
                    => /\ hasError(instance', j - 1) = hasError(instance, j)
                       /\ hasFlag(instance', j - 1) = hasFlag(instance, j)
              /\ j = itemsSize(instance) - 1
                    => ~hasError(instance', j) /\ ~hasFlag(instance', j)
      ]_vars

---------------------------------------------------------------------------
(* A list without validation errors: renders, add and delete only *)

NextAddRemove ==
    \/ Render
    \/ \E value \in AddValues, index \in -1..MaxLen : Add(value, index)
    \/ \E index \in 0..(MaxLen - 1) : Delete(index)

SpecAddRemove == InitList /\ [][NextAddRemove]_vars

\* C17: for a list whose items carry no validation error, after any sequence of
\* add and remove operations errors is the empty container and errorsCount() is 0
C17_CleanListStaysClean ==
    instance.errors = EmptyObj /\ errorsCount(instance) = 0

---------------------------------------------------------------------------
(* The handlers of the list context called with any argument *)

\* handleAdd(value, index)
HandleAdd(value, index) ==
    /\ Len(listItems(instance)) < MaxLen
    /\ keyManager.id < MaxKeyId
    /\ LET r == handleAdd(instance, keyManager, value, index)
       IN  /\ instance' = r.form
           /\ keyManager' = r.keyManager
           /\ last' = [op |-> "handleAdd", value |-> value, index |-> index, ret |-> r.ret]
    /\ UNCHANGED <<now, rendered, fields, history, calls, burst>>

\* handleMove(from, to)
HandleMove(from, to) ==
    /\ LET r == handleMove(instance, keyManager, from, to)
       IN  /\ instance' = r.form
           /\ keyManager' = r.keyManager
    /\ last' = [op |-> "handleMove", from |-> from, to |-> to]
    /\ UNCHANGED <<now, rendered, fields, history, calls, burst>>

\* handleDelete(index)
HandleDelete(index) ==
    /\ LET r == handleDelete(instance, keyManager, index)
       IN  /\ instance' = r.form
           /\ keyManager' = r.keyManager
    /\ last' = [op |-> "handleDelete", index |-> index]
    /\ UNCHANGED <<now, rendered, fields, history, calls, burst>>

NextHandlers ==
    \/ Render
    \/ \E value \in {Str("D"), Str(""), Null}, index \in {-1, 0, 1, MaxLen} :
          HandleAdd(value, index)
    \/ \E from \in {-1, 0, 1, MaxLen}, to \in {-1, 0, 1, MaxLen} : HandleMove(from, to)
    \/ \E index \in {0, 1, MaxLen} : HandleDelete(index)

\* the list without a filter
InitHandlers == InitList /\ rendered.hidden = {}

SpecHandlers == InitHandlers /\ [][NextHandlers]_vars

\* a request the handlers are to ignore
InvalidRequest(I, l) ==
    \/ /\ l.op = "handleMove"
       /\ l.from = l.to \/ ~validIndex(I, l.from) \/ ~validIndex(I, l.to)
    \/ l.op = "handleDelete" /\ ~validIndex(I, l.index)
    \/ l.op = "handleAdd" /\ ~Truthy(l.value)

\* C18: a move with from = to or an index outside [0, size), a remove with an
\* index outside [0, size) and an add with a falsy value leave the value, the
\* errors, the required flags and the key table unchanged, and the add returns 0
C18_InvalidRequestsAreNoOps ==
    [][ InvalidRequest(instance, last')
        => /\ instance'.value = instance.value
           /\ instance'.errors = instance.errors
           /\ instance'.requiredErrors = instance.requiredErrors
           /\ keyManager'.keys = keyManager.keys
           /\ last'.op = "handleAdd" => last'.ret = 0 ]_vars

---------------------------------------------------------------------------
(* The list with min and max: the entry points of itemProps, List and List.Add *)

\* the min and max props of the List
ListProps == [min |-> 1, max |-> 2]

\* canAdd and canDelete of the render the entry points close over (no filter:
\* every item is rendered, so the rendered items are the items of the list)
canAdd(R) == Cardinality(R.visible) < ListProps.max
canDelete(R) == Cardinality(R.visible) > ListProps.min

AddEntries == {"add", "addStart", "addAfter", "addBefore", "duplicate"}

\* itemProps of the item at index: what the entry point leaves, and its result
itemProps(I, K, R, entry, index, value) ==
    LET ignored == [form |-> I, keyManager |-> K, ret |-> NoKey]
        item == listItems(I)[index + 1]
        \* { ...value, ...newValue } with newValue = {}: the own keys of the item
        copy == IF isString(item) THEN Obj([k \in {"0"} |-> item]) ELSE item
    IN  CASE entry = "add" ->
                IF ~canAdd(R) THEN ignored ELSE handleAdd(I, K, value, -1)
          [] entry = "addStart" ->
                IF ~canAdd(R) THEN ignored ELSE handleAdd(I, K, value, 0)
          [] entry = "addAfter" ->
                IF ~canAdd(R) THEN ignored ELSE handleAdd(I, K, value, index + 1)
          [] entry = "addBefore" -> handleAdd(I, K, value, index)
          [] entry = "duplicate" ->
                IF ~canAdd(R) THEN ignored ELSE handleAdd(I, K, copy, index + 1)
          [] entry = "delete" ->
                IF ~canDelete(R) THEN ignored
                ELSE handleDelete(I, K, index) @@ [ret |-> NoKey]

InitBounds ==
    /\ instance = NewInstance(Obj([k \in {"l"} |-> Arr(<<Str("A"), Str("B")>>)]))
    /\ now = 1
    /\ keyManager = NoKeys
    /\ rendered = NoRender
    /\ fields = NoFields
    /\ history = NoHistory
    /\ calls = NoCalls
    /\ burst = 0
    /\ last = [op |-> "new"]

\* an entry point of the itemProps of a rendered item is called
ItemProp(entry, index, value) ==
    /\ rendered.mounted
    /\ index \in rendered.visible
    /\ index < Len(listItems(instance))
    /\ entry \in AddEntries
          => Len(listItems(instance)) < MaxLen /\ keyManager.id < MaxKeyId
    /\ LET r == itemProps(instance, keyManager, rendered, entry, index, value)
       IN  /\ instance' = r.form
           /\ keyManager' = r.keyManager
           /\ last' = [op |-> "itemProp", entry |-> entry, index |-> index, ret |-> r.ret]
    /\ UNCHANGED <<now, rendered, fields, history, calls, burst>>

\* add of the List render props and of List.Add
ListAdd(value, index) ==
    /\ rendered.mounted
    /\ Len(listItems(instance)) < MaxLen
    /\ keyManager.id < MaxKeyId
    /\ LET r == IF ~canAdd(rendered)
                THEN [form |-> instance, keyManager |-> keyManager, ret |-> NoKey]
                ELSE handleAdd(instance, keyManager, value, index)
       IN  /\ instance' = r.form
           /\ keyManager' = r.keyManager
           /\ last' = [op |-> "listAdd", index |-> index, ret |-> r.ret]
    /\ UNCHANGED <<now, rendered, fields, history, calls, burst>>

NextBounds ==
    \/ Render
    \/ \E entry \in AddEntries \cup {"delete"}, index \in 0..(MaxLen - 1), value \in AddValues :
          ItemProp(entry, index, value)
    \/ \E value \in AddValues, index \in {-1, 0} : ListAdd(value, index)

SpecBounds == InitBounds /\ [][NextBounds]_vars

\* C19: every public add entry point performs no mutation when canAdd is false
\* (size >= max), and the public delete performs none when canDelete is false
\* (size <= min)
C19_BoundsGuard ==
    [][ \/ /\ last'.op = "listAdd" \/ (last'.op = "itemProp" /\ last'.entry \in AddEntries)
           /\ ~canAdd(rendered)
        \/ /\ last'.op = "itemProp" /\ last'.entry = "delete"
           /\ ~canDelete(rendered)
        => /\ instance'.value = instance.value
           /\ instance'.errors = instance.errors
           /\ keyManager' = keyManager ]_vars

---------------------------------------------------------------------------
(* A four-item list behind a filter: renders, moveDown and moveUp *)

InitMoves ==
    /\ instance = NewInstance(Obj([k \in {"l"} |->
                      Arr(<<Str("A"), Str("B"), Str("B"), Str("C")>>)]))
    /\ now = 1
    /\ keyManager = NoKeys
    /\ \E hidden \in Filters : rendered = [NoRender EXCEPT !.hidden = hidden]
    /\ fields = NoFields
    /\ history = NoHistory
    /\ calls = NoCalls
    /\ burst = 0
    /\ last = [op |-> "new"]

NextMoves ==
    \/ Render
    \/ \E index \in 0..MaxLen : MoveDown(index)
    \/ \E index \in 0..MaxLen : MoveUp(index)

SpecMoves == InitMoves /\ [][NextMoves]_vars

\* the indexes the filter lets through, for the list as it is now
visibleNow(I, R) ==
    {i \in 0..(itemsSize(I) - 1) : filterFn(R.hidden, listItems(I)[i + 1])}

\* C20: with the render up to date, moveDown on a visible item that is not the
\* last visible one moves it to the index of the next visible item, and moveUp
\* on one that is not the first visible one to the index of the previous
\* visible item; neither acts on the last / first visible item
C20_MoveSkipsHiddenItems ==
    [][ (last'.op = "move" /\ rendered.visible = visibleNow(instance, rendered))
        => LET from == last'.from
               to == last'.to
               after == {i \in rendered.visible : i > from}
               before == {i \in rendered.visible : i < from}
           IN  /\ from < to => /\ after # {}
                               /\ \A i \in after : to <= i
                               /\ to \in after
               /\ from > to => /\ before # {}
                               /\ \A i \in before : to >= i
                               /\ to \in before
               /\ listItems(instance')[to + 1] = listItems(instance)[from + 1]
      ]_vars

---------------------------------------------------------------------------
(* itemProps.duplicate with and without a patch *)

\* a patch given as a function: value => ({ n: 'f' })
Fn == [t |-> "function"]
isFunction(v) == v.t = "function"
callPatch(item) == Obj([k \in {"n"} |-> Str("f")])

\* { ...v }: the own enumerable properties (a string spreads its characters,
\* the strings of the model have one; null, undefined and a function have none)
spread(v) ==
    CASE v.t = "object" -> v.kv
      [] v.t = "string" -> [k \in {"0"} |-> v]
      [] v.t = "array" -> [k \in {Seg(i - 1) : i \in 1..Len(v.el)} |-> v.el[Idx(k) + 1]]
      [] OTHER -> NoProps

\* { ...a, ...b }
merge(a, b) ==
    Obj([k \in (DOMAIN spread(a)) \cup (DOMAIN spread(b)) |->
            IF k \in DOMAIN spread(b) THEN spread(b)[k] ELSE spread(a)[k]])

\* itemProps.duplicate(newValue) of the item at index
duplicate(I, K, R, index, newValue) ==
    IF ~canAdd(R) THEN [form |-> I, keyManager |-> K, ret |-> NoKey]
    ELSE LET value == listItems(I)[index + 1]
             \* the item is tested, not the patch; no item of the model is a function
             newValue1 == IF isFunction(value) THEN callPatch(value) ELSE newValue
             newValue2 == IF ~isPlainObject(value) THEN EmptyObj ELSE newValue1
         IN  handleAdd(I, K, merge(value, newValue2), index + 1)

DuplicateSeeds == {Obj([k \in {"n"} |-> Str("x")]), Str("A")}
Patches == {Undefined, Obj([k \in {"m"} |-> Str("y")]), Fn}

InitDuplicate ==
    /\ \E item \in DuplicateSeeds :
          instance = NewInstance(Obj([k \in {"l"} |-> Arr(<<item>>)]))
    /\ now = 1
    /\ keyManager = NoKeys
    /\ rendered = NoRender
    /\ fields = NoFields
    /\ history = NoHistory
    /\ calls = NoCalls
    /\ burst = 0
    /\ last = [op |-> "new"]

\* duplicate of an item of the current render (max is 2)
Duplicate(index, newValue) ==
    /\ rendered.mounted
    /\ rendered.visible = 0..(Len(listItems(instance)) - 1)
    /\ index \in rendered.visible
    /\ keyManager.id < MaxKeyId
    /\ LET r == duplicate(instance, keyManager, rendered, index, newValue)
       IN  /\ instance' = r.form
           /\ keyManager' = r.keyManager
           /\ last' = [op |-> "duplicate", index |-> index, newValue |-> newValue,
                       ret |-> r.ret]
    /\ UNCHANGED <<now, rendered, fields, history, calls, burst>>

NextDuplicate ==
    \/ Render
    \/ \E index \in 0..(MaxLen - 1), newValue \in Patches : Duplicate(index, newValue)
    \/ \E index \in 0..(MaxLen - 1) : ItemProp("delete", index, Undefined)

SpecDuplicate == InitDuplicate /\ [][NextDuplicate]_vars

\* the patch as an object: given as one, or computed from the source item
patchOf(newValue, item) ==
    IF isFunction(newValue) THEN callPatch(item)
    ELSE IF isPlainObject(newValue) THEN newValue ELSE EmptyObj

\* C21: duplicate(index, patch) on a list below max inserts exactly one new
\* item immediately after index: a shallow copy of the item at index merged with
\* the patch (an object, or a function of the source item), or {} when the
\* source item is not a plain mapping; the source and all other items are unchanged
C21_DuplicateInsertsAPatchedCopy ==
    [][ (last'.op = "duplicate" /\ canAdd(rendered))
        => LET items == listItems(instance)
               item == items[last'.index + 1]
               copy == IF isPlainObject(item)
                       THEN merge(item, patchOf(last'.newValue, item))
                       ELSE EmptyObj
           IN  listItems(instance')
                  = slice(items, 0, last'.index + 1) \o <<copy>>
                       \o sliceFrom(items, last'.index + 1) ]_vars

---------------------------------------------------------------------------
(* Claims about the fields *)

\* the field commits in this step: its debounced report fires, or the submit
\* asks every registered item for its value
commits(f) ==
    \/ last'.op = "reportForm" /\ last'.f = f
    \/ /\ last'.op = "requestImmediateValue"
       /\ \E i \in 1..Len(instance.items) : instance.items[i] = f

\* C22: each time a field with required = true commits, afterwards the error
\* at its path is "Required Field." and the path is in the required flags if
\* and only if the trimmed field value equals the empty value (""); otherwise
\* no error and no required flag remain at the path
C22_RequiredOnCommit ==
    [][ \A f \in FieldIds :
          (Props[f].required /\ commits(f))
          => IF trimString(fields[f].value) = propEmptyValue
             THEN /\ getError(instance', Props[f].path) = Str("Required Field.")
                  /\ requiredErrorsHas(instance'.requiredErrors, Props[f].path)
             ELSE /\ isNil(getError(instance', Props[f].path))
                  /\ ~requiredErrorsHas(instance'.requiredErrors, Props[f].path) ]_vars

\* the required field committed a value of whitespace only and carries the error
C22_Witness ==
    /\ last.op = "reportForm"
    /\ last.f = "e"
    /\ fields["e"].value = Str(" ")
    /\ getError(instance, Props["e"].path) = Str("Required Field.")
    /\ requiredErrorsHas(instance.requiredErrors, Props["e"].path)

---------------------------------------------------------------------------
(* Claims about the store, continued *)

C24_GetFallsBackToItsDefault ==
    [][ (last'.op = "get" /\ isUndefined(lodashGet(instance.value, last'.path, Undefined)))
        => last'.ret = last'.defaultValue ]_vars

---------------------------------------------------------------------------
(* Two subscribed listeners and their unsubscribe functions *)

\* the Instance after onChange(l1) and onChange(l2)
InitSubscribed ==
    /\ instance = onChange(onChange(NewInstance(Undefined), "l1"), "l2")
    /\ now = 1
    /\ keyManager = NoKeys
    /\ rendered = NoRender
    /\ fields = NoFields
    /\ history = NoHistory
    /\ calls = NoCalls
    /\ burst = 0
    /\ last = [op |-> "new"]

\* the function onChange(listener) returned is called, for the first time or again
CallUnsubscribe(listener) ==
    /\ instance' = unsubscribe(instance, listener)
    /\ last' = [op |-> "unsubscribe", listener |-> listener,
                again |-> listener \notin instance.onChangeListeners]
    /\ UNCHANGED <<now, keyManager, rendered, fields, history, calls, burst>>

NextUnsubscribe ==
    \/ \E x \in Values, s \in BOOLEAN : Set(<<"n">>, x, s)
    \/ \E l \in Listeners : CallUnsubscribe(l)
    \/ TimerFires

SpecUnsubscribe == InitSubscribed /\ [][NextUnsubscribe]_vars

\* C25: once the unsubscribe function of a listener has been called the
\* listener is never invoked again, also not by a notification that was pending
\* at that moment; a second call of the function has no effect; the listeners
\* still subscribed are invoked by every notification
C25_UnsubscribeIsFinal ==
    [][ /\ \A l \in Listeners :
              l \notin instance.onChangeListeners
              => calls'[l] = calls[l] /\ l \notin instance'.onChangeListeners
        /\ last'.op = "unsubscribe"
              => /\ last'.listener \notin instance'.onChangeListeners
                 /\ last'.again => instance' = instance
        /\ last'.op = "notify"
              => \A l \in instance.onChangeListeners :
                    calls'[l].count = calls[l].count + 1 ]_vars

\* l1 was unsubscribed while a notification was pending and after it had been
\* invoked once; l2 is still subscribed
C25_Witness ==
    /\ last.op = "unsubscribe"
    /\ last.listener = "l1"
    /\ ~last.again
    /\ instance.timer.pending
    /\ calls["l1"].count = 1
    /\ instance.onChangeListeners = {"l2"}

---------------------------------------------------------------------------
(* onChange called with any argument *)

\* arguments that are not functions: a string and undefined
NonCallables == {"'not a function'", "undefined"}

\* onChange(listener), whatever the listener and whether or not it is subscribed
CallOnChange(listener) ==
    /\ instance' = onChange(instance, listener)
    /\ last' = [op |-> "onChange", listener |-> listener,
                threw |-> onChangeThrows(listener)]
    /\ UNCHANGED <<now, keyManager, rendered, fields, history, calls, burst>>

NextSubscribe ==
    \/ \E l \in Listeners \cup NonCallables : CallOnChange(l)
    \/ \E l \in Listeners : CallUnsubscribe(l)
    \/ \E x \in Values : Set(<<"n">>, x, FALSE)
    \/ TimerFires

SpecSubscribe == InitStore /\ [][NextSubscribe]_vars

\* C26: onChange called with a non-callable argument throws the Error
\* 'listener must be a function.' and registers nothing: the listeners and all
\* of the Instance are as they were
C26_NonCallableListenerThrows ==
    [][ (last'.op = "onChange" /\ last'.listener \in NonCallables)
        => /\ last'.threw = "listener must be a function."
           /\ instance' = instance
           /\ calls' = calls ]_vars

\* onChange('not a function') threw while a listener was subscribed and a
\* notification was pending
C26_Witness ==
    /\ last.op = "onChange"
    /\ last.listener = "'not a function'"
    /\ last.threw = "listener must be a function."
    /\ instance.onChangeListeners = {"l1"}
    /\ instance.timer.pending

\* C27: changesCount counts delivered notifications, not mutating calls: it
\* grows by exactly one each time the debounced notification fires and by
\* nothing else, and the payload of that notification carries the new count
C27_ChangesCountCountsNotifications ==
    [][ IF last'.op = "notify"
        THEN /\ instance'.changesCount = instance.changesCount + 1
             /\ \A l \in instance.onChangeListeners :
                   calls'[l].payload.changesCount = instance'.changesCount
        ELSE instance'.changesCount = instance.changesCount ]_vars

\* the second notification closed a burst of several mutations, and a listener
\* that received both holds the count 2
C27_Witness ==
    /\ last.op = "notify"
    /\ last.burst >= 2
    /\ instance.changesCount = 2
    /\ \E l \in instance.onChangeListeners :
          calls[l].count = 2 /\ calls[l].payload.changesCount = 2

---------------------------------------------------------------------------
(* The changed flag: changes, the clock, notifications and submits *)

\* handleSubmit of the Form: the items report, then lastSubmit = now()
Submit ==
    /\ LET r == requestImmediateValue(instance, fields)
       IN  /\ instance' = [r.form EXCEPT !.lastSubmit = now]
           /\ fields' = r.fields
    /\ last' = [op |-> "submit"]
    /\ UNCHANGED <<now, keyManager, rendered, history, calls, burst>>

NextSubmit ==
    \/ \E x \in Values : Set(<<"n">>, x, FALSE)
    \/ Tick
    \/ Submit
    \/ TimerFires

SpecSubmit == InitStore /\ [][NextSubmit]_vars

\* C28: in every reachable state, also right after a submit that follows a
\* delivered notification, getPayload().changed is true if and only if
\* lastChange > lastSubmit
C28_ChangedIsRecomputedOnRead ==
    getPayload(instance).changed = (instance.lastChange > instance.lastSubmit)

----------------------------------------------------------------------------
(* Object identity: value and errors as objects on a heap.  A heap is a
   sequence of objects, an object is a function from keys to cells, a cell is
   a scalar or a reference to another object.  An array is an object keyed by
   its indexes.  Here the variable instance holds the references value and
   errors with the heap they point into, and calls holds the objects that a
   caller or a listener was handed and still keeps (at most MaxHeld of them),
   each with the content it had at that moment.  set, setError and unsetError
   return this.value or this.errors, the objects a getPayload() that follows
   returns. *)

MaxRefs == 7
MaxItems == 2
MaxHeld == 2

Ref(r) == [t |-> "ref", r |-> r]
isRef(c) == c.t = "ref"

\* the order in which keys are visited (insertion order is not modelled)
KeyOrder == <<"a", "b", "l", "n">> \o [i \in 1..MaxItems |-> Seg(i - 1)]

alloc(h, kv) == Append(h, kv)
assignOnHeap(h, r, k, c) == [h EXCEPT ![r] = Put(@, k, c)]
deleteOnHeap(h, r, k) == [h EXCEPT ![r] = [j \in (DOMAIN @) \ {k} |-> @[j]]]

\* an object literal of the caller: a new object on the heap
literal(h, v) ==
    IF isPlainObject(v)
    THEN [heap |-> alloc(h, v.kv), cell |-> Ref(Len(h) + 1)]
    ELSE [heap |-> h, cell |-> v]

\* lodash cloneDeep: a new object for every object reachable from r
RECURSIVE cloneDeep(_, _), cloneProps(_, _, _, _)
cloneDeep(h, r) == cloneProps(alloc(h, NoProps), r, Len(h) + 1, 1)
cloneProps(h, src, dst, i) ==
    IF i > Len(KeyOrder) THEN [heap |-> h, ref |-> dst]
    ELSE LET k == KeyOrder[i]
         IN  IF k \notin DOMAIN h[src] THEN cloneProps(h, src, dst, i + 1)
             ELSE IF isRef(h[src][k])
             THEN LET sub == cloneDeep(h, h[src][k].r)
                  IN  cloneProps(assignOnHeap(sub.heap, dst, k, Ref(sub.ref)), src, dst, i + 1)
             ELSE cloneProps(assignOnHeap(h, dst, k, h[src][k]), src, dst, i + 1)

\* lodash set(object, path, value): writes into the object it is given
RECURSIVE setInPlace(_, _, _, _)
setInPlace(h, r, path, c) ==
    IF Len(path) = 1 THEN assignOnHeap(h, r, path[1], c)
    ELSE IF path[1] \in DOMAIN h[r] /\ isRef(h[r][path[1]])
    THEN setInPlace(h, h[r][path[1]].r, Tail(path), c)
    ELSE LET h1 == alloc(h, NoProps)
         IN  setInPlace(assignOnHeap(h1, r, path[1], Ref(Len(h1))), Len(h1), Tail(path), c)

\* lodash get(object, path): the cell at the path
RECURSIVE getOnHeap(_, _, _)
getOnHeap(h, r, path) ==
    IF path[1] \notin DOMAIN h[r] THEN Undefined
    ELSE IF Len(path) = 1 THEN h[r][path[1]]
    ELSE IF isRef(h[r][path[1]]) THEN getOnHeap(h, h[r][path[1]].r, Tail(path))
    ELSE Undefined

\* deepClean on plain objects: it deletes properties of the object it is given
RECURSIVE deepCleanOnHeap(_, _, _), cleanKeys(_, _, _)
cleanKeys(h, r, i) ==
    IF i > Len(KeyOrder) THEN h
    ELSE LET k == KeyOrder[i]
         IN  IF k \notin DOMAIN h[r] THEN cleanKeys(h, r, i + 1)
             ELSE IF isNil(h[r][k]) THEN cleanKeys(deleteOnHeap(h, r, k), r, i + 1)
             ELSE IF ~isRef(h[r][k]) THEN cleanKeys(h, r, i + 1)
             ELSE IF DOMAIN h[h[r][k].r] = {} THEN cleanKeys(deleteOnHeap(h, r, k), r, i + 1)
             ELSE LET d == deepCleanOnHeap(h, h[r][k].r, FALSE)
                  IN  IF isNil(d.ret) THEN cleanKeys(deleteOnHeap(d.heap, r, k), r, i + 1)
                      ELSE cleanKeys(d.heap, r, i + 1)
deepCleanOnHeap(h, r, isRoot) ==
    LET h1 == cleanKeys(h, r, 1)
        hasOnlyNullValues == \A k \in DOMAIN h1[r] : isNil(h1[r][k])
    IN  IF ~isRoot /\ hasOnlyNullValues THEN [heap |-> h1, ret |-> Null]
        ELSE [heap |-> h1, ret |-> Ref(r)]

\* new Instance(): value and errors are two new empty objects
NewInstanceOnHeap == [heap |-> <<NoProps, NoProps>>, errors |-> 1, value |-> 2, pending |-> FALSE]

\* a set that writes into the current value instead of a clone of it
setWithoutClone(I, path, v) ==
    LET f == literal(I.heap, v)
    IN  [I EXCEPT !.heap = setInPlace(f.heap, I.value, path, f.cell), !.pending = TRUE]

\* Instance.set: this.value = set(cloneDeep(this.value), path, value)
setOnHeap(I, path, v) ==
    LET f == literal(I.heap, v)
        c == cloneDeep(f.heap, I.value)
    IN  [I EXCEPT !.heap = setInPlace(c.heap, c.ref, path, f.cell),
                  !.value = c.ref, !.pending = TRUE]

\* Instance.setError
setErrorOnHeap(I, path, x) ==
    IF isString(x) /\ isEmpty(x) THEN I
    ELSE LET c == cloneDeep(I.heap, I.errors)
         IN  [I EXCEPT !.heap = setInPlace(c.heap, c.ref, path, x),
                       !.errors = c.ref, !.pending = TRUE]

\* Instance.unsetError: deepClean(set(cloneDeep(this.errors), path, null))
unsetErrorOnHeap(I, path) ==
    LET c == cloneDeep(I.heap, I.errors)
        d == deepCleanOnHeap(setInPlace(c.heap, c.ref, path, Null), c.ref, TRUE)
    IN  [I EXCEPT !.heap = d.heap, !.errors = c.ref, !.pending = TRUE]

\* Instance.patch: { ...this.value, ...value }, a shallow copy
patchOnHeap(I, v) ==
    LET f == literal(I.heap, v)
        merged == [k \in (DOMAIN f.heap[I.value]) \cup (DOMAIN v.kv) |->
                     IF k \in DOMAIN v.kv THEN v.kv[k] ELSE f.heap[I.value][k]]
    IN  [I EXCEPT !.heap = alloc(f.heap, merged), !.value = Len(f.heap) + 1,
                  !.pending = TRUE]

\* Instance.replace: the object of the caller becomes the value
replaceOnHeap(I, v) ==
    LET f == literal(I.heap, v)
    IN  [I EXCEPT !.heap = f.heap, !.value = f.cell.r, !.pending = TRUE]

\* Instance.clear: two new empty objects
clearOnHeap(I) ==
    [I EXCEPT !.heap = alloc(alloc(@, NoProps), NoProps),
              !.errors = Len(I.heap) + 1, !.value = Len(I.heap) + 2, !.pending = TRUE]

\* List handleAdd with the default index: form.set(path, [...items, value])
handleAddOnHeap(I, value) ==
    IF ~Truthy(value) THEN I
    ELSE LET got == getOnHeap(I.heap, I.value, ListPath)
             items == IF isRef(got) THEN I.heap[got.r] ELSE NoProps
             added == Put(items, Seg(Cardinality(DOMAIN items)), value)
             h1 == alloc(I.heap, added)
         IN  setOnHeap([I EXCEPT !.heap = h1], ListPath, Ref(Len(h1)))

\* the content of an object, references followed
RECURSIVE Deep(_, _)
Deep(h, r) == Obj([k \in DOMAIN h[r] |-> IF isRef(h[r][k]) THEN Deep(h, h[r][k].r) ELSE h[r][k]])

\* what the holder keeps of a returned or delivered cell
handed(I, holder, c) ==
    IF isRef(c) THEN {[holder |-> holder, ref |-> c.r, seen |-> Deep(I.heap, c.r)]} ELSE {}

HeapPaths == {<<"n">>, <<"a", "b">>}
HeapValues == {Str("x"), Obj([b \in {"b"} |-> Str("y")])}
HeapPatches == {Obj([n \in {"n"} |-> Str("y")])}
HeapErrorPaths == {<<"a", "b">>}

InitSnapshots ==
    /\ instance = NewInstanceOnHeap
    /\ now = 1
    /\ keyManager = NoKeys
    /\ rendered = NoRender
    /\ fields = NoFields
    /\ history = NoHistory
    /\ calls = {}
    /\ burst = 0
    /\ last = [op |-> "new"]

Idle == UNCHANGED <<now, keyManager, rendered, fields, history, burst>>

SetOnHeap(path, v) ==
    /\ instance' = setOnHeap(instance, path, v)
    /\ Len(instance'.heap) <= MaxRefs
    /\ last' = [op |-> "set", path |-> path]
    /\ UNCHANGED calls
    /\ Idle

SetErrorOnHeap(path, x) ==
    /\ instance' = setErrorOnHeap(instance, path, x)
    /\ Len(instance'.heap) <= MaxRefs
    /\ last' = [op |-> "setError"]
    /\ UNCHANGED calls
    /\ Idle

UnsetErrorOnHeap(path) ==
    /\ instance' = unsetErrorOnHeap(instance, path)
    /\ Len(instance'.heap) <= MaxRefs
    /\ last' = [op |-> "unsetError"]
    /\ UNCHANGED calls
    /\ Idle

PatchOnHeap(v) ==
    /\ instance' = patchOnHeap(instance, v)
    /\ Len(instance'.heap) <= MaxRefs
    /\ last' = [op |-> "patch"]
    /\ UNCHANGED calls
    /\ Idle

ReplaceOnHeap(v) ==
    /\ instance' = replaceOnHeap(instance, v)
    /\ Len(instance'.heap) <= MaxRefs
    /\ last' = [op |-> "replace"]
    /\ UNCHANGED calls
    /\ Idle

ClearOnHeap ==
    /\ instance' = clearOnHeap(instance)
    /\ Len(instance'.heap) <= MaxRefs
    /\ last' = [op |-> "clear"]
    /\ UNCHANGED calls
    /\ Idle

ListAddOnHeap(value) ==
    /\ LET got == getOnHeap(instance.heap, instance.value, ListPath)
       IN  isRef(got) => Cardinality(DOMAIN instance.heap[got.r]) < MaxItems
    /\ instance' = handleAddOnHeap(instance, value)
    /\ Len(instance'.heap) <= MaxRefs
    /\ last' = [op |-> "add"]
    /\ UNCHANGED calls
    /\ Idle

\* get(path) and getError(path): the caller holds the object stored at the path
GetOnHeap(path) ==
    /\ calls' = calls \cup handed(instance, "caller", getOnHeap(instance.heap, instance.value, path))
    /\ Cardinality(calls') <= MaxHeld
    /\ last' = [op |-> "get"]
    /\ UNCHANGED instance
    /\ Idle

GetErrorOnHeap(path) ==
    /\ calls' = calls \cup handed(instance, "caller", getOnHeap(instance.heap, instance.errors, path))
    /\ Cardinality(calls') <= MaxHeld
    /\ last' = [op |-> "getError"]
    /\ UNCHANGED instance
    /\ Idle

\* getPayload(): { value: this.value, errors: this.errors, ... }
GetPayloadOnHeap ==
    /\ calls' = calls \cup handed(instance, "caller", Ref(instance.value))
                      \cup handed(instance, "caller", Ref(instance.errors))
    /\ Cardinality(calls') <= MaxHeld
    /\ last' = [op |-> "getPayload"]
    /\ UNCHANGED instance
    /\ Idle

\* the debounce timer expires: the listener receives getPayload()
DeliverOnHeap ==
    /\ instance.pending
    /\ instance' = [instance EXCEPT !.pending = FALSE]
    /\ calls' = calls \cup handed(instance, "listener", Ref(instance.value))
                      \cup handed(instance, "listener", Ref(instance.errors))
    /\ Cardinality(calls') <= MaxHeld
    /\ last' = [op |-> "notify"]
    /\ Idle

NextSnapshots ==
    \/ \E path \in HeapPaths, v \in HeapValues : SetOnHeap(path, v)
    \/ \E path \in HeapErrorPaths, x \in Messages : SetErrorOnHeap(path, x)
    \/ \E path \in HeapErrorPaths : UnsetErrorOnHeap(path)
    \/ \E v \in HeapPatches : PatchOnHeap(v)
    \/ \E v \in HeapPatches : ReplaceOnHeap(v)
    \/ ClearOnHeap
    \/ ListAddOnHeap(Str("x"))
    \/ \E path \in {<<"a">>, ListPath} : GetOnHeap(path)
    \/ GetErrorOnHeap(<<"a">>)
    \/ GetPayloadOnHeap
    \/ DeliverOnHeap

SpecSnapshots == InitSnapshots /\ [][NextSnapshots]_vars

\* C29: snapshots are never mutated in place.  After every step, each object a
\* caller or a listener was handed has the content it had when it was handed
\* out, and a step that changes the content of value or of errors leaves the
\* store pointing at another top-level object than before.
C29_SnapshotsAreNeverMutated ==
    [][ /\ \A s \in calls' : Deep(instance'.heap, s.ref) = s.seen
        /\ Deep(instance'.heap, instance'.value) # Deep(instance.heap, instance.value)
              => instance'.value # instance.value
        /\ Deep(instance'.heap, instance'.errors) # Deep(instance.heap, instance.errors)
              => instance'.errors # instance.errors ]_vars

\* a listener was delivered the value {a: {b: 'x'}} and keeps it; a later set
\* under the same path has given the store another value
C29_Witness ==
    /\ last.op = "set"
    /\ \E s \in calls : /\ s.holder = "listener"
                        /\ s.seen = Obj([a \in {"a"} |-> Obj([b \in {"b"} |-> Str("x")])])
                        /\ s.ref # instance.value
                        /\ getOnHeap(instance.heap, s.ref, <<"a">>)
                              # getOnHeap(instance.heap, instance.value, <<"a">>)
    /\ Deep(instance.heap, instance.value)
          = Obj([a \in {"a"} |-> Obj([b \in {"b"} |-> Obj([k \in {"b"} |-> Str("y")])])])

\* C30: at most one pending commit per field.  A field has a scheduled report
\* only while it is mounted; a keystroke leaves exactly the report it has just
\* scheduled; unmount leaves none; and the debounced report only ever runs, and
\* writes to the store, for a field that is mounted, consuming its timer.
C30_OnePendingCommitPerField ==
    [][ /\ \A f \in FieldIds : fields'[f].timer => fields'[f].mounted
        /\ last'.op = "handleChange" => fields'[last'.f].timer
        /\ last'.op = "unmount" => ~fields'[last'.f].timer
        /\ last'.op = "reportForm" =>
              /\ fields[last'.f].mounted
              /\ fields[last'.f].timer
              /\ ~fields'[last'.f].timer ]_vars

\* a field was unmounted while its report was scheduled: the report is gone and
\* the typed value never reached the store
C30_Witness ==
    /\ last.op = "unmount"
    /\ last.cancelled
    /\ ~fields[last.f].timer
    /\ isUndefined(lodashGet(instance.value, Props[last.f].path, Undefined))

----------------------------------------------------------------------------
(* The key table: memoization and uniqueness *)

\* the keys the table holds
heldKeys(K) == {K.keys[i] : i \in 1..Len(K.keys)} \ {NoKey}

\* C31: getKey is memoized and keys are unique.  A render (getKey for every
\* rendered index) leaves every key already in the table where it is; every key
\* that enters the table is the id counter's value or above, and is below the
\* counter afterwards, so ids grow strictly; and after every getKey, add, remove
\* and move no two indexes of the table hold the same key.
C31_KeysAreMemoizedAndUnique ==
    [][ /\ last'.op = "render" =>
              \A i \in 0..(Len(keyManager.keys) - 1) :
                  keyAt(keyManager, i) # NoKey => keyAt(keyManager', i) = keyAt(keyManager, i)
        /\ keyManager'.id >= keyManager.id
        /\ \A k \in heldKeys(keyManager') \ heldKeys(keyManager) :
              k >= keyManager.id /\ k < keyManager'.id
        /\ \A i, j \in 1..Len(keyManager'.keys) :
              (i # j /\ keyManager'.keys[i] # NoKey)
                  => keyManager'.keys[i] # keyManager'.keys[j] ]_vars

\* a render after a move and an add: the table holds three keys out of order
C31_Witness ==
    /\ last.op = "render"
    /\ Cardinality(heldKeys(keyManager)) >= 3
    /\ \E i, j \in 1..Len(keyManager.keys) :
          /\ i < j
          /\ keyManager.keys[i] # NoKey /\ keyManager.keys[j] # NoKey
          /\ keyManager.keys[i] > keyManager.keys[j]
    /\ keyManager.id > Len(keyManager.keys)

\* C32: structural sharing on set.  set(p, v) copies only the containers on the
\* path to p: every property of the root that is not the first segment of p
\* holds after the set the very cell it held before, so a sibling subtree is the
\* same object before and after.
C32_SetSharesUntouchedSubtrees ==
    [][ last'.op = "set" =>
          \A k \in DOMAIN instance.heap[instance.value] :
              k # last'.path[1] =>
                  getOnHeap(instance'.heap, instance'.value, <<k>>)
                      = getOnHeap(instance.heap, instance.value, <<k>>) ]_vars

----------------------------------------------------------------------------
(* Silent and non-silent mutations in one debounce window *)

\* two subscribers, sets with either flag, and every armed notification is
\* delivered: the timer expires 10 ms after the latest call
NextSilentLive ==
    \/ /\ instance.changesCount < MaxChanges
       /\ \E path \in ValuePaths, x \in Values, s \in BOOLEAN : Set(path, x, s)
    \/ TimerFires

SpecSilentLive == InitSubscribed /\ [][NextSilentLive]_vars /\ WF_vars(TimerFires)

\* C33: a non-silent mutation is never masked.  Every set made with
\* silent = false is eventually followed by a notification to the subscribers
\* whose silent flag is false.
C33_NonSilentIsNeverMasked ==
    (last.op = "set" /\ ~last.silent) ~> (last.op = "notify" /\ ~last.args.silent)

----------------------------------------------------------------------------
(* The debounce window in time: a notification is due WaitTicks clock ticks
   after the latest mutating call *)

WaitTicks == 2

\* a mutating call: the store is written and the timer is (re)started
SetInWindow(x) ==
    /\ instance.changesCount < MaxChanges
    /\ instance' = [set(instance, <<"n">>, x, FALSE) EXCEPT
                      !.timer = [pending |-> TRUE, args |-> @.args, wait |-> WaitTicks]]
    /\ Mutated
    /\ last' = [op |-> "set", path |-> <<"n">>, x |-> x, silent |-> FALSE, stale |-> FALSE]
    /\ UNCHANGED <<now, keyManager, rendered, fields, history, calls>>

\* a clock tick passes while the timer runs (the clock reading is capped at MaxNow)
Elapse ==
    /\ instance.timer.pending
    /\ instance.timer.wait > 0
    /\ instance' = [instance EXCEPT !.timer.wait = @ - 1]
    /\ now' = IF now < MaxNow THEN now + 1 ELSE now
    /\ last' = [op |-> "tick"]
    /\ UNCHANGED <<keyManager, rendered, fields, history, calls, burst>>

\* the timer is due: WaitTicks have passed since the latest call
Expire ==
    /\ instance.timer.pending
    /\ instance.timer.wait = 0
    /\ TimerFires

NextWindow ==
    \/ \E x \in Values : SetInWindow(x)
    \/ Elapse
    \/ Expire

\* time passes, and a timer fires when it is due
SpecWindow ==
    InitSubscribed /\ [][NextWindow]_vars /\ WF_vars(Elapse) /\ WF_vars(Expire)

\* C34: notification liveness.  Every mutation is eventually followed by a
\* notification to the subscribers whose payload holds the value it wrote or a
\* later one, whatever the schedule of the mutations.
C34_EveryMutationIsReported ==
    (last.op = "set") ~> (last.op = "notify" /\ calls["l1"].payload.value = instance.value)

----------------------------------------------------------------------------
(* Fields and writes to the store made behind their back *)

NextStale ==
    \/ Tick
    \/ \E f \in FieldIds : Mount(f)
    \/ \E f \in FieldIds, x \in Values : Set(Props[f].path, x, FALSE)
    \/ \E f \in FieldIds : Sync(f)
    \/ \E value \in Typed : HandleChange("n", value)
    \/ ItemTimerFires("n")
    \/ RequestImmediateValue

SpecStale == InitItem /\ [][NextStale]_vars

\* C35: requestImmediateValue never overwrites a newer store value with a stale
\* field value.  When the step before was an Instance.set at the path of a
\* registered field (so the field has not synchronized since) and the field has
\* no pending typed input, requestImmediateValue leaves the store value at that
\* path as the set wrote it.
C35_FlushKeepsNewerStoreValue ==
    [][ (last.op = "set" /\ last'.op = "requestImmediateValue") =>
          \A f \in FieldIds :
              ( /\ fields[f].mounted
                /\ Props[f].path = last.path
                /\ ~fields[f].userInputPendingReport )
              => lodashGet(instance'.value, last.path, Undefined) = last.x ]_vars

\* C36: required flags always refer to present errors.  In every state each
\* key of the required flags is the joined path of a place where errors holds a
\* non-empty message, so requiredErrorsCount() is at most the number of messages.
C36_RequiredFlagsHaveErrors ==
    /\ \A p \in RequiredPaths :
          requiredErrorsHas(instance.requiredErrors, p)
              => /\ isString(lodashGet(instance.errors, p, Undefined))
                 /\ ~isEmpty(lodashGet(instance.errors, p, Undefined))
    /\ requiredErrorsCount(instance) <= LeafCount(instance.errors)

----------------------------------------------------------------------------
(* Moves of items whose fields hold required errors *)

\* the path of the field n of an item
FieldPath(index) == ItemPath(index) \o <<"n">>

\* the Item bound to the field of an item reports a required error
\* (reportForm: instance.setError(path.current, 'Required Field.', false, true))
FieldSetError(index) ==
    /\ index < Len(listItems(instance))
    /\ instance' = setError(instance, FieldPath(index), Str("e"), FALSE, TRUE)
    /\ last' = [op |-> "setError", path |-> FieldPath(index), x |-> Str("e")]
    /\ UNCHANGED <<now, keyManager, rendered, fields, history, calls, burst>>

NextFieldErrors ==
    \/ Render
    \/ \E index \in 0..(MaxLen - 1) : MoveDown(index)
    \/ \E index \in 0..(MaxLen - 1) : MoveUp(index)
    \/ \E index \in 0..(MaxLen - 1) : FieldSetError(index)

SpecFieldErrors == InitList /\ [][NextFieldErrors]_vars

\* C37: move preserves the required flags of item fields.  After move(from, to)
\* with valid distinct indexes requiredErrorsCount() is what it was, and a flag
\* registered on the field of the item at from or at to is registered on that
\* field under the slot the item moved to, where its message is.
C37_MoveKeepsFieldFlags ==
    [][ ( /\ last'.op = "move"
          /\ last'.from # last'.to
          /\ validIndex(instance, last'.from)
          /\ validIndex(instance, last'.to) )
        => /\ requiredErrorsCount(instance') = requiredErrorsCount(instance)
           /\ \A j \in {last'.from, last'.to} :
                requiredErrorsHas(instance.requiredErrors, FieldPath(j))
                  => /\ requiredErrorsHas(instance'.requiredErrors,
                                          FieldPath(movedTo(last'.from, last'.to, j)))
                     /\ getError(instance', FieldPath(movedTo(last'.from, last'.to, j)))
                          = getError(instance, FieldPath(j))
      ]_vars

\* C38: the list size stays within its bounds.  Starting with min <= size <= max,
\* every sequence of calls of the public add and delete entry points, also two
\* calls made on the same render, keeps min <= size <= max.
C38_SizeStaysWithinBounds ==
    /\ ListProps.min <= itemsSize(instance)
    /\ itemsSize(instance) <= ListProps.max

----------------------------------------------------------------------------
(* The history bridge and silent mutations *)

NextHistorySilent ==
    \/ \E path \in ValuePaths, x \in Values, s \in BOOLEAN : Set(path, x, s)
    \/ TimerFires

SpecHistorySilent == InitHistory /\ [][NextHistorySilent]_vars

\* C39: silent mutations are not recorded in history.  A notification whose
\* silent flag is true pushes nothing onto the history buffer: the entries
\* behind, at and ahead of the current slot are what they were.
C39_SilentIsNotRecorded ==
    [][ (last'.op = "notify" /\ last'.args.silent) => history' = history ]_vars

----------------------------------------------------------------------------
(* The list replaced as a whole *)

NewArrays == {<<>>, <<Str("A")>>, <<Str("B"), Str("A")>>}

\* every item of the list has its key at its index
aligned(I, K) ==
    /\ Len(K.keys) = itemsSize(I)
    /\ \A i \in 0..(itemsSize(I) - 1) : hasKey(K, i)

\* replace of the List render props: form.set(path, value)
ListReplace(value) ==
    /\ rendered.mounted
    /\ instance' = set(instance, ListPath, Arr(value), FALSE)
    /\ last' = [op |-> "replace", aligned |-> aligned(instance, keyManager)]
    /\ UNCHANGED <<now, keyManager, rendered, fields, history, calls, burst>>

NextReplace ==
    \/ Render
    \/ \E value \in NewArrays : ListReplace(value)
    \/ \E value \in AddValues, index \in -1..MaxLen : Add(value, index)

SpecReplace == InitHandlers /\ [][NextReplace]_vars

\* C40: the key table stays aligned with the array when the list is replaced.
\* When every item had its key at its index before a replace(newArray), the add
\* that follows the replace returns the key that getKey reports for the index
\* of the added item, and no other item held that key before the add.
C40_ReplaceKeepsTheKeyTableAligned ==
    [][ (last.op = "replace" /\ last.aligned /\ last'.op = "add")
        => LET at == addedAt(instance, last'.index)
           IN  /\ getKey(keyManager', at).ret = last'.ret
               /\ getKey(keyManager', at).ret \notin heldKeys(keyManager) ]_vars

============================================================================
